---- MODULE Spec2Model ----
(***************************************************************************)
(* The game-phase state machine and the night/vote resolution engine of    *)
(* the werewolf game server: GameService (game.service.ts), the Prisma     *)
(* store behind GameRepository, and the socket handlers that call them     *)
(* (GameSocketHandler).                                                    *)
(*                                                                         *)
(* The persisted rows (Game, GamePlayer, RoleState, Vote, GameAction,      *)
(* LoverPair) are the variables.  A service method reads one snapshot with *)
(* findByIdWithRelations and then writes rows; the operators below compute *)
(* on a record `db` of the tables so that a handler that chains two        *)
(* service calls (castVote, then processPhaseEnd) is one action.           *)
(***************************************************************************)
EXTENDS Integers, Sequences, FiniteSets, Bags, TLC

\* ---------------------------------------------------------------- bounds
NumPlayers == 4        \* players that joined the lobby
MaxDay == 1            \* handlers are explored while dayNumber <= MaxDay
MaxActionRows == 1     \* rows of GameAction explored by Spec
MaxVoteRows == 1       \* rows of Vote explored by Spec
MaxJoined == 5         \* players in the lobbies of SpecStart
MaxClock == 5          \* joinedAt values explored by SpecLobby
MaxCasts == 2          \* SpecCast starts no phase-end after this many commits

\* ------------------------------------------------------------- constants
NoPlayer == 0          \* a null targetId / secondaryTargetId
NoSide == "null"       \* Game.winningSide before the game is over

Players == 1..NumPlayers

Role ==
  {"VILLAGER", "WEREWOLF", "SEER", "DOCTOR", "HUNTER", "WITCH", "CUPID",
   "LITTLE_GIRL", "THIEF", "SHERIFF"}

ActionType ==
  {"WEREWOLF_KILL", "SEER_CHECK", "DOCTOR_SAVE", "WITCH_KILL", "WITCH_SAVE",
   "HUNTER_SHOOT", "CUPID_LINK", "SHERIFF_REVEAL", "THIEF_CHOOSE"}

TimedPhases == {"NIGHT", "DISCUSSION", "VOTING"}

\* Object.entries order of settings.roles (DEFAULT_GAME_SETTINGS.roles first)
RoleKeys ==
  <<"WEREWOLF", "SEER", "DOCTOR", "HUNTER", "WITCH", "VILLAGER", "CUPID">>

\* ------------------------------------------------------------- variables
VARIABLES
  game,        \* the Game row: status, phase, dayNumber, winningSide, settings
  players,     \* GamePlayer rows by id: role, isAlive, isHost
  roleStates,  \* RoleState rows by playerId
  votes,       \* Vote rows
  actions,     \* GameAction rows
  loverPairs,  \* LoverPair rows
  timers,      \* pending setTimeout callbacks of startPhaseTimer, per phase
  result,      \* PhaseEndResult of the last gameService.processPhaseEnd
  lastVote,    \* history: the last accepted castVote(userId, targetId) and
               \* whether it updated an existing Vote row
  calls        \* in-flight processPhaseEnd calls (interleaved specification)

vars ==
  <<game, players, roleStates, votes, actions, loverPairs, timers, result,
    lastVote, calls>>

\* the tables as one value
Db ==
  [game |-> game, players |-> players, roleStates |-> roleStates,
   votes |-> votes, actions |-> actions, loverPairs |-> loverPairs]

\* ------------------------------------------------------------- helpers
RECURSIVE Flatten(_, _, _)
\* assignRoles, first loop: `count` copies of each configured role, in key order
Flatten(roleConfig, k, acc) ==
  IF k > Len(RoleKeys) THEN acc
  ELSE LET count == IF RoleKeys[k] \in DOMAIN roleConfig
                    THEN roleConfig[RoleKeys[k]] ELSE 0
       IN  Flatten(roleConfig, k + 1,
                   acc \o [i \in 1..count |-> RoleKeys[k]])

\* assignRoles, second loop: pad with VILLAGER up to playerCount (never trims)
PadVillagers(roles, playerCount) ==
  IF Len(roles) < playerCount
  THEN roles \o [i \in 1..(playerCount - Len(roles)) |-> "VILLAGER"]
  ELSE roles

Perms(n) == {f \in [1..n -> 1..n] : \A i, j \in 1..n : f[i] = f[j] => i = j}

\* assignRoles: every outcome of the Fisher-Yates shuffle of the padded list
assignRoles(playerCount, roleConfig) ==
  LET roles == PadVillagers(Flatten(roleConfig, 1, <<>>), playerCount)
  IN  {[i \in 1..Len(roles) |-> roles[f[i]]] : f \in Perms(Len(roles))}

\* mutant of PlayerIndex: every player is given roles[0]
FirstIndex(ps, p) == 1

\* index of player p in game.players (ordered by playerNumber asc), from 1
PlayerIndex(ps, p) == Cardinality({q \in DOMAIN ps : q <= p})

\* GameRepository.gameInclude: what findByIdWithRelations returns of the tables
findByIdWithRelations(db) ==
  [db EXCEPT !.votes = {v \in db.votes : v.dayNumber >= 0},
             !.actions = {a \in db.actions : ~a.processed}]

validActions(role) ==
  CASE role = "WEREWOLF" -> {"WEREWOLF_KILL"}
    [] role = "SEER" -> {"SEER_CHECK"}
    [] role = "DOCTOR" -> {"DOCTOR_SAVE"}
    [] role = "WITCH" -> {"WITCH_KILL", "WITCH_SAVE"}
    [] role = "HUNTER" -> {"HUNTER_SHOOT"}
    [] role = "CUPID" -> {"CUPID_LINK"}
    [] role = "THIEF" -> {"THIEF_CHOOSE"}
    [] role = "SHERIFF" -> {"SHERIFF_REVEAL"}
    [] OTHER -> {}

isValidActionForRole(role, action) == action \in validActions(role)

\* mutant of validateActionAvailable: the flags are not read
validateActionAlwaysAvailable(roleState, action) == TRUE

\* validateActionAvailable: TRUE when it does not throw
validateActionAvailable(roleState, action) ==
  CASE action = "WITCH_SAVE" -> ~roleState.healPotionUsed
    [] action = "WITCH_KILL" -> ~roleState.poisonPotionUsed
    [] action = "HUNTER_SHOOT" -> ~roleState.hasShot
    [] OTHER -> TRUE

\* ------------------------------------------------------- night resolution
\* a returned GameEvent (the fields the handlers and clients read)
\* data.causeOfDeath is `cause`; data.voteCount is `count`
Event(type, visibility, visibleTo, playerId, cause, count, g) ==
  [type |-> type, visibility |-> visibility, visibleTo |-> visibleTo,
   playerId |-> playerId, cause |-> cause, voteCount |-> count,
   dayNumber |-> g.dayNumber, phase |-> g.phase]

\* processNightActions: the unprocessed NIGHT actions of the snapshot's day
nightActionsOf(snap) ==
  {a \in snap.actions :
     a.dayNumber = snap.game.dayNumber /\ a.phase = "NIGHT" /\ ~a.processed}

\* processNightActions: the `killed` list, as a bag of player ids (one copy
\* per WEREWOLF_KILL / WITCH_KILL action with a target)
killed(nightActions) ==
  LET kills == {a \in nightActions :
                  a.action \in {"WEREWOLF_KILL", "WITCH_KILL"}
                  /\ a.targetId # NoPlayer}
      targets == {a.targetId : a \in kills}
  IN  [p \in targets |-> Cardinality({a \in kills : a.targetId = p})]

\* mutant of saved: the witch's heal is not collected
savedByDoctorOnly(nightActions) ==
  {a.targetId : a \in {b \in nightActions :
                         b.action = "DOCTOR_SAVE" /\ b.targetId # NoPlayer}}

\* processNightActions: the `saved` list (membership is all that is read)
saved(nightActions) ==
  {a.targetId : a \in {b \in nightActions :
                         b.action \in {"DOCTOR_SAVE", "WITCH_SAVE"}
                         /\ b.targetId # NoPlayer}}

\* mutant of actuallyKilled: a save cancels one kill only
actuallyKilledOnePerSave(nightActions) ==
  LET k == killed(nightActions)
      saves(p) == Cardinality({a \in nightActions :
                     a.action \in {"DOCTOR_SAVE", "WITCH_SAVE"}
                     /\ a.targetId = p})
  IN  [p \in {q \in DOMAIN k : k[q] > saves(q)} |-> k[p] - saves(p)]

\* killed.filter((id) => !saved.includes(id)), as a bag of player ids
actuallyKilled(nightActions) ==
  LET k == killed(nightActions)
  IN  [p \in DOMAIN k \ saved(nightActions) |-> k[p]]

\* GameRepository.findLoverPair: findFirst over the pairs holding playerId.
\* No orderBy is given; a player is player1 of at most one pair and player2
\* of at most one pair, and the pair with the smallest player1Id is taken.
findLoverPair(db, playerId) ==
  LET found == {lp \in db.loverPairs :
                  lp.player1Id = playerId \/ lp.player2Id = playerId}
  IN  IF found = {} THEN {}
      ELSE {CHOOSE lp \in found :
              \A o \in found : lp.player1Id <= o.player1Id}

otherLover(lp, playerId) ==
  IF lp.player1Id = playerId THEN lp.player2Id ELSE lp.player1Id

\* mutant of loverCascade: the partner is left alive
noLoverCascade(db, dead) == {}

\* the partners set dead by the cascade for the players in `dead`
loverCascade(db, dead) ==
  UNION {{otherLover(lp, p) : lp \in findLoverPair(db, p)} : p \in dead}

RECURSIVE SumOver(_, _)
SumOver(f, S) ==
  IF S = {} THEN 0
  ELSE LET x == CHOOSE y \in S : TRUE IN f[x] + SumOver(f, S \ {x})

\* processNightActions: the events pushed for the bag `ak` of killed ids: one
\* PLAYER_KILLED per copy, and one more for the partner of each copy
nightEvents(snap, db, ak) ==
  LET known == {p \in DOMAIN ak : p \in DOMAIN snap.players}
      direct == [e \in {Event("PLAYER_KILLED", "PUBLIC", {}, p, "werewolf",
                              0, snap.game) : p \in known}
                   |-> ak[e.playerId]]
      partners == loverCascade(db, known) \cap DOMAIN snap.players
      heart == [e \in {Event("PLAYER_KILLED", "PUBLIC", {}, o, "heartbreak",
                             0, snap.game) : o \in partners}
                  |-> SumOver(ak, {p \in known :
                                     e.playerId \in loverCascade(db, {p})})]
  IN  direct (+) heart

\* updatePlayer(id, {isAlive: false}) for every id of `dead`
setDead(ps, dead) ==
  [p \in DOMAIN ps |->
     IF p \in dead THEN [ps[p] EXCEPT !.isAlive = FALSE] ELSE ps[p]]

\* mutant of markProcessed: the actions are left unprocessed
markNoneProcessed(rows, done) == rows

\* updateAction(id, {processed: true}) for the rows of `done`
markProcessed(rows, done) ==
  {IF [a EXCEPT !.processed = FALSE] \in done
   THEN [a EXCEPT !.processed = TRUE] ELSE a : a \in rows}

\* updateRoleState for the WITCH_SAVE / WITCH_KILL actions of the night
usePotions(snap, rs, nightActions) ==
  LET healers == {a.playerId : a \in {b \in nightActions :
                     b.action = "WITCH_SAVE" /\ b.targetId # NoPlayer}}
      poisoners == {a.playerId : a \in {b \in nightActions :
                     b.action = "WITCH_KILL" /\ b.targetId # NoPlayer}}
  IN  [p \in DOMAIN rs |->
         [rs[p] EXCEPT
            !.healPotionUsed =
               @ \/ (p \in healers /\ p \in DOMAIN snap.roleStates),
            !.poisonPotionUsed =
               @ \/ (p \in poisoners /\ p \in DOMAIN snap.roleStates)]]

\* processNightActions(game): the returned events and the tables it leaves
processNightActions(snap, db) ==
  LET na == nightActionsOf(snap)
      ak == actuallyKilled(na)
      dead == DOMAIN ak \cup loverCascade(db, DOMAIN ak \cap DOMAIN snap.players)
  IN  [events |-> nightEvents(snap, db, ak),
       db |-> [db EXCEPT !.roleStates = usePotions(snap, @, na),
                         !.actions = markProcessed(@, na),
                         !.players = setDead(@, dead)]]

\* -------------------------------------------------------- vote resolution
\* processVotes: the votes of the snapshot's day cast in phase VOTING
votesOf(snap) ==
  {v \in snap.votes :
     v.dayNumber = snap.game.dayNumber /\ v.phase = "VOTING"}

\* processVotes: the voteCount map (keys are the targets of non-skip votes)
voteCount(vs) ==
  [p \in {v.targetId : v \in {w \in vs : w.targetId # NoPlayer}} |->
     Cardinality({v \in vs : v.targetId = p})]

RECURSIVE mostVotedFirstWins(_, _, _)
\* mutant of mostVoted: an entry that equals the maximum is ignored
mostVotedFirstWins(vc, todo, acc) ==
  IF todo = {} THEN acc
  ELSE LET playerId == CHOOSE p \in todo : \A q \in todo : p <= q
           count == vc[playerId]
       IN  mostVotedFirstWins(vc, todo \ {playerId},
             IF count > acc.maxVotes
             THEN [maxVotes |-> count, eliminated |-> {playerId}]
             ELSE acc)

RECURSIVE mostVoted(_, _, _)
\* processVotes: the loop over the map entries that keeps maxVotes and the
\* list `eliminated` (as a set; its length and its only element are read)
mostVoted(vc, todo, acc) ==
  IF todo = {} THEN acc
  ELSE LET playerId == CHOOSE p \in todo : \A q \in todo : p <= q
           count == vc[playerId]
       IN  mostVoted(vc, todo \ {playerId},
             IF count > acc.maxVotes
             THEN [maxVotes |-> count, eliminated |-> {playerId}]
             ELSE IF count = acc.maxVotes
                  THEN [acc EXCEPT !.eliminated = @ \cup {playerId}]
                  ELSE acc)

\* mutant of eliminatedBy: more than half of the votes are needed
eliminatedByMajority(vs) ==
  LET vc == voteCount(vs)
      m == mostVoted(vc, DOMAIN vc, [maxVotes |-> 0, eliminated |-> {}])
  IN  IF Cardinality(m.eliminated) = 1 /\ 2 * m.maxVotes > Cardinality(vs)
      THEN m.eliminated ELSE {}

\* the player processVotes eliminates, as a set with at most one element
eliminatedBy(vs) ==
  LET vc == voteCount(vs)
      m == mostVoted(vc, DOMAIN vc, [maxVotes |-> 0, eliminated |-> {}])
  IN  IF Cardinality(m.eliminated) = 1 /\ m.maxVotes > 0
      THEN m.eliminated ELSE {}

\* processVotes: the events pushed when `out` (one player or none) is eliminated
voteEvents(snap, db, out, vs) ==
  LET known == out \cap DOMAIN snap.players
      gone == {Event("PLAYER_ELIMINATED", "PUBLIC", {}, p, "",
                     voteCount(vs)[p], snap.game) : p \in known}
      hunter == {Event("HUNTER_TRIGGERED", "PRIVATE", {p}, p, "",
                       0, snap.game) :
                   p \in {q \in known :
                            /\ snap.players[q].role = "HUNTER"
                            /\ q \in DOMAIN snap.roleStates
                            /\ ~snap.roleStates[q].hasShot}}
      heart == {Event("PLAYER_KILLED", "PUBLIC", {}, o, "heartbreak",
                      0, snap.game) :
                  o \in loverCascade(db, known) \cap DOMAIN snap.players}
  IN  SetToBag(gone \cup hunter \cup heart)

\* processVotes(game): the returned events and the tables it leaves
processVotes(snap, db) ==
  LET vs == votesOf(snap)
      out == eliminatedBy(vs)
      dead == out \cup loverCascade(db, out \cap DOMAIN snap.players)
  IN  [events |-> voteEvents(snap, db, out, vs),
       db |-> [db EXCEPT !.players = setDead(@, dead)]]

\* ---------------------------------------------------------- win condition
alivePlayers(snap) == {p \in DOMAIN snap.players : snap.players[p].isAlive}

aliveWerewolves(snap) ==
  {p \in alivePlayers(snap) : snap.players[p].role = "WEREWOLF"}

aliveVillagers(snap) ==
  {p \in alivePlayers(snap) : snap.players[p].role # "WEREWOLF"}

\* game.loverPairs?.[0]: the first pair row of the snapshot, if any
firstLoverPair(snap) ==
  IF snap.loverPairs = {} THEN {}
  ELSE {CHOOSE lp \in snap.loverPairs :
          \A o \in snap.loverPairs : lp.player1Id <= o.player1Id}

\* mutant of checkWinConditions: the parity test comes first
checkWinConditionsParityFirst(snap) ==
  IF Cardinality(aliveWerewolves(snap)) >= Cardinality(aliveVillagers(snap))
  THEN [gameEnded |-> TRUE, winningSide |-> "WEREWOLF",
        winners |-> aliveWerewolves(snap)]
  ELSE IF Cardinality(aliveWerewolves(snap)) = 0
  THEN [gameEnded |-> TRUE, winningSide |-> "VILLAGE",
        winners |-> aliveVillagers(snap)]
  ELSE [gameEnded |-> FALSE, winningSide |-> NoSide, winners |-> {}]

\* GameService.checkWinConditions(game)
checkWinConditions(snap) ==
  IF Cardinality(aliveWerewolves(snap)) = 0
  THEN [gameEnded |-> TRUE, winningSide |-> "VILLAGE",
        winners |-> aliveVillagers(snap)]
  ELSE IF Cardinality(aliveWerewolves(snap))
            >= Cardinality(aliveVillagers(snap))
  THEN [gameEnded |-> TRUE, winningSide |-> "WEREWOLF",
        winners |-> aliveWerewolves(snap)]
  ELSE IF /\ Cardinality(alivePlayers(snap)) = 2
          /\ \E lp \in firstLoverPair(snap) :
               {lp.player1Id, lp.player2Id} \subseteq alivePlayers(snap)
  THEN [gameEnded |-> TRUE, winningSide |-> "LOVERS",
        winners |-> UNION {{lp.player1Id, lp.player2Id} :
                             lp \in firstLoverPair(snap)}]
  ELSE [gameEnded |-> FALSE, winningSide |-> NoSide, winners |-> {}]

\* ------------------------------------------------------------- phase end
\* processPhaseEnd, the switch: the phase that follows `phase`
newPhaseAfter(phase) ==
  CASE phase = "NIGHT" -> "DISCUSSION"
    [] phase = "DISCUSSION" -> "VOTING"
    [] phase = "VOTING" -> "NIGHT"

\* mutant of dayNumberAfter: dayNumber++ in every case
dayNumberAfterAnyPhase(phase, dayNumber) == dayNumber + 1

\* processPhaseEnd, the switch: dayNumber++ in the VOTING case only
dayNumberAfter(phase, dayNumber) ==
  IF phase = "VOTING" THEN dayNumber + 1 ELSE dayNumber

\* processPhaseEnd, the switch: the resolution run for the snapshot's phase
resolutionOf(snap, db) ==
  CASE snap.game.phase = "NIGHT" -> processNightActions(snap, db)
    [] snap.game.phase = "VOTING" -> processVotes(snap, db)
    [] OTHER -> [events |-> EmptyBag, db |-> db]

\* processPhaseEnd, after the switch: the update of the Game row and the
\* PhaseEndResult, for snapshot `snap` and the tables `resolved.db`
commitPhaseEnd(snap, resolved) ==
  LET newPhase == newPhaseAfter(snap.game.phase)
      dayNumber == dayNumberAfter(snap.game.phase, snap.game.dayNumber)
      winCheck == checkWinConditions(snap)
  IN  IF winCheck.gameEnded
      THEN [ok |-> TRUE,
            db |-> [resolved.db EXCEPT
                      !.game.status = "COMPLETED",
                      !.game.phase = "GAME_OVER",
                      !.game.winningSide = winCheck.winningSide],
            result |-> [newPhase |-> "GAME_OVER", dayNumber |-> dayNumber,
                        events |-> resolved.events, gameEnded |-> TRUE,
                        winningSide |-> winCheck.winningSide,
                        winners |-> winCheck.winners]]
      ELSE [ok |-> TRUE,
            db |-> [resolved.db EXCEPT
                      !.game.phase = newPhase,
                      !.game.dayNumber = dayNumber],
            result |-> [newPhase |-> newPhase, dayNumber |-> dayNumber,
                        events |-> resolved.events, gameEnded |-> FALSE,
                        winningSide |-> NoSide, winners |-> {}]]

NoResult ==
  [newPhase |-> "WAITING", dayNumber |-> 0, events |-> EmptyBag,
   gameEnded |-> FALSE, winningSide |-> NoSide, winners |-> {}]

\* GameService.processPhaseEnd run from start to end on the tables `db`;
\* ok = FALSE when it throws "Invalid phase for processing"
processPhaseEnd(db) ==
  LET snap == findByIdWithRelations(db)
  IN  IF snap.game.phase \in TimedPhases
      THEN commitPhaseEnd(snap, resolutionOf(snap, db))
      ELSE [ok |-> FALSE, db |-> db, result |-> NoResult]

\* mutant of startGameOk: the number of players is not checked
startGameOkAnyCount(snap, userId) ==
  /\ userId \in DOMAIN snap.players
  /\ snap.players[userId].isHost
  /\ snap.game.status = "LOBBY"

\* ------------------------------------------------------------- startGame
\* startGame: TRUE when none of its checks throws
startGameOk(snap, userId) ==
  /\ userId \in DOMAIN snap.players
  /\ snap.players[userId].isHost
  /\ snap.game.status = "LOBBY"
  /\ Cardinality(DOMAIN snap.players) >= snap.game.settings.minPlayers

\* startGame, the transaction: roles[index] and a fresh RoleState for every
\* player, then status, phase and dayNumber of the Game row
startGame(db, roles) ==
  [db EXCEPT
     !.players = [p \in DOMAIN @ |->
                    [@[p] EXCEPT !.role = roles[PlayerIndex(db.players, p)]]],
     !.roleStates = [p \in DOMAIN db.players |->
                       [healPotionUsed |-> FALSE, poisonPotionUsed |-> FALSE,
                        hasShot |-> FALSE]],
     !.game.status = "IN_PROGRESS",
     !.game.phase = "NIGHT",
     !.game.dayNumber = 1]

\* --------------------------------------------------------------- castVote
\* mutant of castVoteOk: the phase is not checked
castVoteOkAnyPhase(snap, userId, targetId) ==
  /\ userId \in DOMAIN snap.players
  /\ snap.players[userId].isAlive
  /\ targetId # NoPlayer =>
       (targetId \in DOMAIN snap.players /\ snap.players[targetId].isAlive)

\* castVote: TRUE when none of its checks throws
castVoteOk(snap, userId, targetId) ==
  /\ snap.game.phase = "VOTING"
  /\ userId \in DOMAIN snap.players
  /\ snap.players[userId].isAlive
  /\ targetId # NoPlayer =>
       (targetId \in DOMAIN snap.players /\ snap.players[targetId].isAlive)

\* the Vote rows that share the @@unique key of `vote`
sameVoteKey(rows, vote) ==
  {v \in rows : /\ v.voterId = vote.voterId
                /\ v.phase = vote.phase
                /\ v.dayNumber = vote.dayNumber
                /\ v.round = vote.round}

\* castVote, "Check for existing vote": the voter's vote of this day and phase
existingVote(snap, voterId) ==
  {v \in snap.votes : /\ v.voterId = voterId
                      /\ v.dayNumber = snap.game.dayNumber
                      /\ v.phase = snap.game.phase}

\* mutant of writeVote: updateVote leaves the target of the existing row
writeVoteKeepsTarget(snap, rows, voterId, targetId) ==
  LET new == [voterId |-> voterId, targetId |-> targetId,
              phase |-> snap.game.phase, dayNumber |-> snap.game.dayNumber,
              round |-> 1]
  IN  IF existingVote(snap, voterId) # {}
      THEN [ok |-> TRUE, rows |-> rows]
      ELSE IF sameVoteKey(rows, new) # {}
           THEN [ok |-> FALSE, rows |-> rows]
           ELSE [ok |-> TRUE, rows |-> rows \cup {new}]

\* castVote, the write: updateVote on the existing row, else createVote
\* (ok = FALSE when the store rejects a second row with the same key)
writeVote(snap, rows, voterId, targetId) ==
  LET old == existingVote(snap, voterId)
      new == [voterId |-> voterId, targetId |-> targetId,
              phase |-> snap.game.phase, dayNumber |-> snap.game.dayNumber,
              round |-> 1]
  IN  IF old # {}
      THEN LET e == CHOOSE v \in old : TRUE
           IN  [ok |-> TRUE,
                rows |-> (rows \ {e}) \cup {[e EXCEPT !.targetId = targetId]}]
      ELSE IF sameVoteKey(rows, new) # {}
           THEN [ok |-> FALSE, rows |-> rows]
           ELSE [ok |-> TRUE, rows |-> rows \cup {new}]

\* findVotesForPhase(gameId, phase, dayNumber)
findVotesForPhase(rows, phase, dayNumber) ==
  {v \in rows : v.phase = phase /\ v.dayNumber = dayNumber}

\* GameService.castVote from start to end
castVote(db, userId, targetId) ==
  LET snap == findByIdWithRelations(db)
      w == writeVote(snap, db.votes, userId, targetId)
  IN  IF castVoteOk(snap, userId, targetId) /\ w.ok
      THEN [ok |-> TRUE,
            db |-> [db EXCEPT !.votes = w.rows],
            updated |-> existingVote(snap, userId) # {},
            allVoted |->
              Cardinality(findVotesForPhase(w.rows, snap.game.phase,
                                            snap.game.dayNumber))
                = Cardinality(alivePlayers(snap))]
      ELSE [ok |-> FALSE, db |-> db, updated |-> FALSE, allVoted |-> FALSE]

\* ----------------------------------------------------- performNightAction
\* mutant of existingAction: the earlier action is not found
existingActionNotFound(snap, playerId) == {}

\* performNightAction, "Check for existing action this phase"
existingAction(snap, playerId) ==
  {a \in snap.actions : /\ a.playerId = playerId
                        /\ a.dayNumber = snap.game.dayNumber
                        /\ a.phase = snap.game.phase
                        /\ ~a.processed}

\* performNightAction: TRUE when none of its checks throws
performNightActionOk(snap, userId, action, targetId, secondaryTargetId) ==
  /\ snap.game.phase = "NIGHT"
  /\ userId \in DOMAIN snap.players
  /\ snap.players[userId].isAlive
  /\ snap.players[userId].role \in Role
  /\ isValidActionForRole(snap.players[userId].role, action)
  /\ userId \in DOMAIN snap.roleStates
  /\ validateActionAvailable(snap.roleStates[userId], action)
  /\ targetId \in DOMAIN snap.players
  /\ snap.players[targetId].isAlive
  /\ secondaryTargetId # NoPlayer =>
       /\ secondaryTargetId \in DOMAIN snap.players
       /\ snap.players[secondaryTargetId].isAlive
  /\ existingAction(snap, userId) = {}

\* checkAllNightActionsComplete(game), on the snapshot it is handed
checkAllNightActionsComplete(snap) ==
  LET tonight == {a \in snap.actions :
                    /\ a.dayNumber = snap.game.dayNumber
                    /\ a.phase = "NIGHT"
                    /\ ~a.processed}
      werewolfActions == {a \in tonight : a.action = "WEREWOLF_KILL"}
      \* game.players.find: the first alive player of the role, by number
      firstOf(role) ==
        LET c == {p \in alivePlayers(snap) : snap.players[p].role = role}
        IN  IF c = {} THEN {} ELSE {CHOOSE p \in c : \A q \in c : p <= q}
  IN  /\ ~(werewolfActions = {} /\ aliveWerewolves(snap) # {})
      /\ \A role \in {"SEER", "DOCTOR"} :
           \A p \in firstOf(role) : \E a \in tonight : a.playerId = p

\* mutant of performNightAction: the row is created before the test for an
\* existing action of this phase
performNightActionCreatesFirst(db, userId, action, targetId, secondaryTargetId) ==
  LET snap == findByIdWithRelations(db)
      row == [playerId |-> userId, action |-> action, targetId |-> targetId,
              secondaryTargetId |-> secondaryTargetId,
              phase |-> snap.game.phase, dayNumber |-> snap.game.dayNumber,
              processed |-> FALSE]
      checked == [snap EXCEPT !.actions = {}]
  IN  IF performNightActionOk(checked, userId, action, targetId,
                              secondaryTargetId)
      THEN [ok |-> existingAction(snap, userId) = {},
            db |-> [db EXCEPT !.actions = @ \cup {row}],
            allActionsComplete |->
              existingAction(snap, userId) = {}
              /\ checkAllNightActionsComplete(snap)]
      ELSE [ok |-> FALSE, db |-> db, allActionsComplete |-> FALSE]

\* GameService.performNightAction from start to end
performNightAction(db, userId, action, targetId, secondaryTargetId) ==
  LET snap == findByIdWithRelations(db)
      row == [playerId |-> userId, action |-> action, targetId |-> targetId,
              secondaryTargetId |-> secondaryTargetId,
              phase |-> snap.game.phase, dayNumber |-> snap.game.dayNumber,
              processed |-> FALSE]
  IN  IF performNightActionOk(snap, userId, action, targetId,
                              secondaryTargetId)
      THEN [ok |-> TRUE,
            db |-> [db EXCEPT !.actions = @ \cup {row}],
            allActionsComplete |-> checkAllNightActionsComplete(snap)]
      ELSE [ok |-> FALSE, db |-> db, allActionsComplete |-> FALSE]

\* ------------------------------------------------------- socket handlers
\* mutant of startPhaseTimer: no callback is scheduled
startPhaseTimerNever(tm, phase) == tm

\* startPhaseTimer: one more pending setTimeout callback for `phase`
startPhaseTimer(tm, phase) == [tm EXCEPT ![phase] = @ + 1]

\* GameSocketHandler.processPhaseEnd: the service call, and a timer for the
\* new phase unless the game ended; an exception is caught and logged
socketPhaseEnd(db, tm) ==
  LET r == processPhaseEnd(db)
  IN  IF ~r.ok THEN [db |-> db, timers |-> tm, result |-> result]
      ELSE [db |-> r.db,
            timers |-> IF r.result.gameEnded THEN tm
                       ELSE startPhaseTimer(tm, r.result.newPhase),
            result |-> r.result]

\* the tables, the timers and the last result after a handler
Commit(db, tm, res) ==
  /\ game' = db.game
  /\ players' = db.players
  /\ roleStates' = db.roleStates
  /\ votes' = db.votes
  /\ actions' = db.actions
  /\ loverPairs' = db.loverPairs
  /\ timers' = tm
  /\ result' = res

\* handleStartGame
HandleStartGame ==
  \E userId \in Players :
    /\ startGameOk(findByIdWithRelations(Db), userId)
    /\ \E roles \in assignRoles(Cardinality(DOMAIN players),
                                game.settings.roles) :
         Commit(startGame(Db, roles), startPhaseTimer(timers, "NIGHT"),
                result)
    /\ UNCHANGED <<lastVote, calls>>

\* the secondary targets tried with an action
SecondaryTargets(action) ==
  IF action = "CUPID_LINK" THEN Players \cup {NoPlayer} ELSE {NoPlayer}

\* handleNightAction: performNightAction and, when it reports
\* allActionsComplete, processPhaseEnd
HandleNightAction(maxRows, maxDay) ==
  \E userId \in Players, action \in ActionType, targetId \in Players :
    \E secondaryTargetId \in SecondaryTargets(action) :
      \E r \in {performNightAction(Db, userId, action, targetId,
                                    secondaryTargetId)} :
        /\ game.dayNumber <= maxDay
        /\ Cardinality(actions) < maxRows
        /\ r.ok
        /\ IF r.allActionsComplete
           THEN \E e \in {socketPhaseEnd(r.db, timers)} :
                  Commit(e.db, e.timers, e.result)
           ELSE Commit(r.db, timers, result)
        /\ UNCHANGED <<lastVote, calls>>

\* handleVote: castVote and, when it reports allVoted, processPhaseEnd
HandleVote(maxRows, maxDay) ==
  \E userId \in Players, targetId \in Players \cup {NoPlayer} :
    \E r \in {castVote(Db, userId, targetId)} :
      /\ game.dayNumber <= maxDay
      /\ r.ok
      /\ Cardinality(r.db.votes) <= maxRows
      /\ IF r.allVoted
         THEN \E e \in {socketPhaseEnd(r.db, timers)} :
                Commit(e.db, e.timers, e.result)
         ELSE Commit(r.db, timers, result)
      /\ lastVote' = [userId |-> userId, targetId |-> targetId,
                      updated |-> r.updated]
      /\ UNCHANGED calls

\* the setTimeout callback of startPhaseTimer(gameId, phase, duration)
TimerFire(phase, maxDay) ==
  LET tm == [timers EXCEPT ![phase] = @ - 1]
  IN  /\ game.dayNumber <= maxDay
      /\ timers[phase] > 0
      /\ IF game.phase = phase /\ game.status = "IN_PROGRESS"
         THEN \E e \in {socketPhaseEnd(Db, tm)} :
                Commit(e.db, e.timers, e.result)
         ELSE Commit(Db, tm, result)
      /\ UNCHANGED <<lastVote, calls>>

\* ------------------------------------------------------- specifications
MinPlayers == 3

RoleCounts(werewolf, seer, doctor, hunter, witch, villager) ==
  [WEREWOLF |-> werewolf, SEER |-> seer, DOCTOR |-> doctor,
   HUNTER |-> hunter, WITCH |-> witch, VILLAGER |-> villager]

NoVote == [userId |-> NoPlayer, targetId |-> NoPlayer, updated |-> FALSE]

\* the tables of a lobby in which NumPlayers players have joined (createGame
\* by player 1, then joinGame by the others)
LobbyDb(roleConfig) ==
  [game |-> [status |-> "LOBBY", phase |-> "WAITING", dayNumber |-> 0,
             winningSide |-> NoSide,
             settings |-> [minPlayers |-> MinPlayers,
                           maxPlayers |-> NumPlayers, roles |-> roleConfig]],
   players |-> [p \in Players |->
                  [role |-> "null", isAlive |-> TRUE, isHost |-> p = 1]],
   roleStates |-> <<>>,
   votes |-> {},
   actions |-> {},
   loverPairs |-> {}]

NoTimers == [ph \in TimedPhases |-> 0]

\* the state whose tables are db
StateIs(db, tm, res) ==
  /\ game = db.game
  /\ players = db.players
  /\ roleStates = db.roleStates
  /\ votes = db.votes
  /\ actions = db.actions
  /\ loverPairs = db.loverPairs
  /\ timers = tm
  /\ result = res
  /\ lastVote = NoVote

\* no phase-end call is in flight
NoCalls == <<>>

Lobby(roleConfig) ==
  StateIs(LobbyDb(roleConfig), NoTimers, NoResult) /\ calls = NoCalls

\* Spec: a whole game, one handler at a time, on small tables
Init == Lobby(RoleCounts(1, 0, 0, 0, 1, 0))

TimerExpires == \E phase \in TimedPhases : TimerFire(phase, MaxDay)

NightAction == HandleNightAction(MaxActionRows, MaxDay)

Vote == HandleVote(MaxVoteRows, MaxDay)

Next == HandleStartGame \/ NightAction \/ Vote \/ TimerExpires

Spec == Init /\ [][Next]_vars

\* SpecNight: the first night of a game with a werewolf, a doctor and a witch:
\* every accepted combination of night actions, and the dawn that resolves it
FirstDay == 1

InitNight == Lobby(RoleCounts(1, 0, 1, 0, 1, 0))

FirstNightAction == HandleNightAction(NumPlayers + 1, FirstDay)

NightTimerExpires == TimerFire("NIGHT", FirstDay)

NextNight == HandleStartGame \/ FirstNightAction \/ NightTimerExpires

SpecNight == InitNight /\ [][NextNight]_vars

\* SpecVote: the first VOTING phase of a game with one werewolf (player 1):
\* every accepted combination of votes and its resolution.  The phase is
\* entered as the handlers enter it: startGame, the night timer (after no
\* action, or after the werewolf killed the last player), the discussion timer.
VoteRoles == RoleCounts(1, 0, 0, 0, 0, 0)

FirstVoting(roles, victim) ==
  LET d0 == startGame(LobbyDb(VoteRoles), roles)
      d1 == IF victim = NoPlayer THEN d0
            ELSE performNightAction(d0, 1, "WEREWOLF_KILL", victim,
                                    NoPlayer).db
      e1 == socketPhaseEnd(d1, startPhaseTimer(NoTimers, "NIGHT"))
      t1 == [e1.timers EXCEPT !["NIGHT"] = @ - 1]
      e2 == socketPhaseEnd(e1.db, t1)
  IN  [db |-> e2.db, timers |-> [e2.timers EXCEPT !["DISCUSSION"] = @ - 1],
       result |-> e2.result]

InitVote ==
  \E roles \in assignRoles(NumPlayers, VoteRoles) :
    \E victim \in {NoPlayer, NumPlayers} :
      \E s \in {FirstVoting(roles, victim)} :
        /\ roles[1] = "WEREWOLF"
        /\ StateIs(s.db, s.timers, s.result)
        /\ calls = NoCalls

VotingTimerExpires == TimerFire("VOTING", FirstDay)

FirstDayVote == HandleVote(NumPlayers, FirstDay)

NextVote == FirstDayVote \/ VotingTimerExpires

SpecVote == InitVote /\ [][NextVote]_vars

\* SpecConc: the first VOTING phase again, with the awaits of the phase-end
\* visible.  A call of GameSocketHandler.processPhaseEnd is started by the
\* setTimeout callback (after its own read of the phase) or by the handleVote
\* that saw allVoted; it then reads its snapshot, runs the resolution on that
\* snapshot, and commits the Game row, and the steps of the two calls
\* interleave.  calls.tasks holds each call's position, snapshot and events;
\* calls.resolved counts the resolutions run per <<phase, dayNumber>>.
Tasks == {"timer", "vote"}

IdleCall ==
  [pc |-> "idle", snap |-> findByIdWithRelations(LobbyDb(VoteRoles)),
   events |-> EmptyBag]

\* the targets the voters of SpecConc choose from: skip, the werewolf, a
\* villager
ConcTargets == {NoPlayer, 1, 2}

InitConc ==
  \E roles \in assignRoles(NumPlayers, VoteRoles) :
    \E victim \in {NumPlayers} :
      \E s \in {FirstVoting(roles, victim)} :
        /\ roles[1] = "WEREWOLF"
        /\ StateIs(s.db, s.timers, s.result)
        /\ calls = [tasks |-> [t \in Tasks |-> IdleCall],
                    resolved |-> EmptyBag]

\* handleVote up to its call of processPhaseEnd
VoteArrives ==
  \E userId \in Players, targetId \in ConcTargets :
    \E r \in {castVote(Db, userId, targetId)} :
      /\ r.ok
      /\ r.allVoted => calls.tasks["vote"].pc = "idle"
      /\ Commit(r.db, timers, result)
      /\ lastVote' = [userId |-> userId, targetId |-> targetId,
                      updated |-> r.updated]
      /\ calls' = IF r.allVoted
                  THEN [calls EXCEPT !.tasks["vote"].pc = "read"]
                  ELSE calls

\* the setTimeout callback of startPhaseTimer up to its call of
\* processPhaseEnd: findById and the test of phase and status
TimerCallback(phase) ==
  /\ timers[phase] > 0
  /\ calls.tasks["timer"].pc = "idle"
  /\ timers' = [timers EXCEPT ![phase] = @ - 1]
  /\ calls' = IF game.phase = phase /\ game.status = "IN_PROGRESS"
              THEN [calls EXCEPT !.tasks["timer"].pc = "read"]
              ELSE calls
  /\ UNCHANGED <<game, players, roleStates, votes, actions, loverPairs,
                 result, lastVote>>

\* GameService.processPhaseEnd, findByIdWithRelations and the default case of
\* the switch (the throw is caught and logged by the socket handler)
CallReads(t) ==
  /\ calls.tasks[t].pc = "read"
  /\ \E snap \in {findByIdWithRelations(Db)} :
       calls' = IF snap.game.phase \in TimedPhases
                THEN [calls EXCEPT !.tasks[t].pc = "resolve",
                                   !.tasks[t].snap = snap]
                ELSE [calls EXCEPT !.tasks[t] = IdleCall]
  /\ UNCHANGED <<game, players, roleStates, votes, actions, loverPairs,
                 timers, result, lastVote>>

\* GameService.processPhaseEnd, the switch: the resolution of the snapshot's
\* phase, written to the tables as they are now
CallResolves(t) ==
  /\ calls.tasks[t].pc = "resolve"
  /\ \E r \in {resolutionOf(calls.tasks[t].snap, Db)} :
       /\ Commit(r.db, timers, result)
       /\ calls' = [calls EXCEPT
                      !.tasks[t].pc = "commit",
                      !.tasks[t].events = r.events,
                      !.resolved = @ (+) SetToBag(
                         {<<calls.tasks[t].snap.game.phase,
                            calls.tasks[t].snap.game.dayNumber>>})]
  /\ UNCHANGED lastVote

\* GameService.processPhaseEnd after the switch, and the rest of
\* GameSocketHandler.processPhaseEnd
CallCommits(t) ==
  /\ calls.tasks[t].pc = "commit"
  /\ \E c \in {commitPhaseEnd(calls.tasks[t].snap,
                               [events |-> calls.tasks[t].events,
                                db |-> Db])} :
       Commit(c.db,
              IF c.result.gameEnded THEN timers
              ELSE startPhaseTimer(timers, c.result.newPhase),
              c.result)
  /\ calls' = [calls EXCEPT !.tasks[t] = IdleCall]
  /\ UNCHANGED lastVote

VotingTimerCallback == TimerCallback("VOTING")

CallStep == \E t \in Tasks : CallReads(t) \/ CallResolves(t) \/ CallCommits(t)

NextConc == VoteArrives \/ VotingTimerCallback \/ CallStep

SpecConc == InitConc /\ [][NextConc]_vars

\* SpecWin: checkWinConditions applied to every board of NumPlayers players:
\* each player a werewolf, a seer or a villager, alive or dead, and no
\* LoverPair row or one.  WinCheck stores what it returns in `result`.
BoardRoles == {"WEREWOLF", "SEER", "VILLAGER"}

Boards ==
  [Players -> [role : BoardRoles, isAlive : BOOLEAN, isHost : {FALSE}]]

PairRows ==
  {{}} \cup {{[player1Id |-> pr[1], player2Id |-> pr[2]]} :
               pr \in {q \in Players \X Players : q[1] # q[2]}}

BoardDb(board, pairs) ==
  [LobbyDb(VoteRoles) EXCEPT
     !.game.status = "IN_PROGRESS", !.game.phase = "DISCUSSION",
     !.game.dayNumber = FirstDay,
     !.players = board,
     !.roleStates = [p \in Players |->
                       [healPotionUsed |-> FALSE, poisonPotionUsed |-> FALSE,
                        hasShot |-> FALSE]],
     !.loverPairs = pairs]

InitWin ==
  \E board \in Boards, pairs \in PairRows :
    /\ StateIs(BoardDb(board, pairs), NoTimers, NoResult)
    /\ calls = NoCalls

WinCheck ==
  /\ \E w \in {checkWinConditions(findByIdWithRelations(Db))} :
       result' = [result EXCEPT !.gameEnded = w.gameEnded,
                                !.winningSide = w.winningSide,
                                !.winners = w.winners]
  /\ UNCHANGED <<game, players, roleStates, votes, actions, loverPairs,
                 timers, lastVote, calls>>

NextWin == WinCheck

SpecWin == InitWin /\ [][NextWin]_vars

\* SpecLovers: the game of Spec played with LoverPair rows in the table: one
\* pair, or two disjoint pairs (each player in at most one pair).
LoverRows ==
  {{[player1Id |-> 1, player2Id |-> 2]},
   {[player1Id |-> 1, player2Id |-> 2],
    [player1Id |-> NumPlayers, player2Id |-> 3]}}

InitLovers ==
  \E pairs \in LoverRows :
    /\ StateIs([LobbyDb(RoleCounts(1, 0, 0, 0, 1, 0)) EXCEPT
                  !.loverPairs = pairs], NoTimers, NoResult)
    /\ calls = NoCalls

SpecLovers == InitLovers /\ [][Next]_vars

\* SpecCupid: the first night of a game with a werewolf and a cupid
CupidRoles == RoleCounts(1, 0, 0, 0, 0, 0) @@ [CUPID |-> 1]

InitCupid == Lobby(CupidRoles)

SpecCupid == InitCupid /\ [][NextNight]_vars

\* SpecStart: startGame on every lobby of 1..MaxJoined players (player 1 the
\* host), with minPlayers 3 or 5, maxPlayers MaxJoined, and a role
\* configuration that createGame accepts (total <= maxPlayers): the default
\* one, one that is short of every player count, one with four kinds of role.
DefaultMinPlayers == 5

DefaultRoles == RoleCounts(1, 1, 0, 0, 0, 3)

StartConfigs ==
  {DefaultRoles, RoleCounts(1, 0, 0, 0, 0, 0), RoleCounts(2, 1, 0, 0, 1, 1)}

LobbyOf(n, minPlayers, roleConfig) ==
  [LobbyDb(roleConfig) EXCEPT
     !.players = [p \in 1..n |->
                    [role |-> "null", isAlive |-> TRUE, isHost |-> p = 1]],
     !.game.settings.minPlayers = minPlayers,
     !.game.settings.maxPlayers = MaxJoined]

InitStart ==
  \E n \in 1..MaxJoined, minPlayers \in {MinPlayers, DefaultMinPlayers},
     roleConfig \in StartConfigs :
    /\ StateIs(LobbyOf(n, minPlayers, roleConfig), NoTimers, NoResult)
    /\ calls = NoCalls

NextStart == HandleStartGame

SpecStart == InitStart /\ [][NextStart]_vars

\* SpecFail: the first night of Spec (a werewolf and a witch, at most
\* MaxActionRows + 1 actions), where a persistence write of the
\* phase-end may throw.  processPhaseEnd awaits its writes one after the other
\* outside any transaction: per night action updateRoleState (witch) and
\* updateAction, then per killed id updatePlayer (and updatePlayer of the
\* partner), then the update of the Game row.  The writes that completed
\* before the throw stay; the socket handler catches and logs.
Orders(S) ==
  {f \in [1..Cardinality(S) -> S] : \A i, j \in DOMAIN f : f[i] = f[j] => i = j}

RECURSIVE Concat(_, _)
\* f[1] \o ... \o f[n]
Concat(f, n) == IF n = 0 THEN <<>> ELSE Concat(f, n - 1) \o f[n]

Write(kind, playerId, row) == [kind |-> kind, playerId |-> playerId, row |-> row]

\* the writes of processNightActions for the night actions in the order `order`
nightWrites(snap, db, order) ==
  LET na == {order[i] : i \in DOMAIN order}
      flags(a) ==
        IF /\ a.action \in {"WITCH_SAVE", "WITCH_KILL"}
           /\ a.targetId # NoPlayer
           /\ a.playerId \in DOMAIN snap.roleStates
        THEN <<Write("roleState", a.playerId, a)>> ELSE <<>>
      loop == [i \in DOMAIN order |->
                 flags(order[i]) \o <<Write("processed", order[i].playerId,
                                            order[i])>>]
      dies(a) ==
        IF /\ a.action \in {"WEREWOLF_KILL", "WITCH_KILL"}
           /\ a.targetId # NoPlayer
           /\ a.targetId \notin saved(na)
        THEN <<Write("dead", a.targetId, a)>>
             \o (IF a.targetId \in DOMAIN snap.players
                 THEN LET ps == loverCascade(db, {a.targetId})
                      IN  [i \in 1..Cardinality(ps) |->
                             Write("dead", CHOOSE o \in ps : TRUE, a)]
                 ELSE <<>>)
        ELSE <<>>
      kills == [i \in DOMAIN order |-> dies(order[i])]
  IN  Concat(loop, Len(order)) \o Concat(kills, Len(order))

\* one write applied to the tables
applyWrite(db, w) ==
  CASE w.kind = "roleState" ->
         [db EXCEPT !.roleStates[w.playerId] =
            IF w.row.action = "WITCH_SAVE"
            THEN [@ EXCEPT !.healPotionUsed = TRUE]
            ELSE [@ EXCEPT !.poisonPotionUsed = TRUE]]
    [] w.kind = "processed" ->
         [db EXCEPT !.actions = markProcessed(@, {w.row})]
    [] w.kind = "dead" ->
         [db EXCEPT !.players = setDead(@, {w.playerId})]

RECURSIVE applyWrites(_, _, _)
\* the first k writes of ws applied to the tables
applyWrites(db, ws, k) ==
  IF k = 0 THEN db ELSE applyWrite(applyWrites(db, ws, k - 1), ws[k])

\* the setTimeout callback for NIGHT when a write of processPhaseEnd throws:
\* after k resolution writes (k = Len(ws): the update of the Game row throws)
NightPhaseEndFails(maxDay) ==
  /\ game.dayNumber <= maxDay
  /\ timers["NIGHT"] > 0
  /\ game.phase = "NIGHT" /\ game.status = "IN_PROGRESS"
  /\ \E snap \in {findByIdWithRelations(Db)} :
       \E order \in Orders(nightActionsOf(snap)) :
         \E ws \in {nightWrites(snap, Db, order)} :
           \E k \in 0..Len(ws) :
             Commit(applyWrites(Db, ws, k),
                    [timers EXCEPT !["NIGHT"] = @ - 1], result)
  /\ UNCHANGED <<lastVote, calls>>

NightTimerFails == NightPhaseEndFails(FirstDay)

FewNightActions == HandleNightAction(MaxActionRows + 1, FirstDay)

NextFail ==
  HandleStartGame \/ FewNightActions \/ NightTimerExpires \/ NightTimerFails

SpecFail == Init /\ [][NextFail]_vars

\* ------------------------------------------------- joinGame / leaveGame
\* In SpecLobby a GamePlayer row also carries playerNumber and joinedAt (the
\* time of its creation, of which only the order matters).
\* mutant of findNextPlayerNumber: a running count, blind to freed numbers
nextPlayerNumberByCount(existingNumbers) == Cardinality(existingNumbers) + 1

\* findNextPlayerNumber: the least number from 1 that no player holds
findNextPlayerNumber(existingNumbers) ==
  CHOOSE i \in 1..(Cardinality(existingNumbers) + 1) :
    /\ i \notin existingNumbers
    /\ \A j \in 1..(i - 1) : j \in existingNumbers

\* joinGame: TRUE when a new GamePlayer is added (a user already in the game
\* gets the game back and nothing is written)
joinGameOk(snap, userId) ==
  /\ snap.game.status = "LOBBY"
  /\ userId \notin DOMAIN snap.players
  /\ Cardinality(DOMAIN snap.players) < snap.game.settings.maxPlayers

\* GameService.joinGame at time `now`; addPlayer throws when the store holds a
\* row with the same playerNumber (@@unique([gameId, playerNumber]))
joinGame(db, userId, now) ==
  LET snap == findByIdWithRelations(db)
      row == [role |-> "null", isAlive |-> TRUE, isHost |-> FALSE,
              playerNumber |->
                findNextPlayerNumber({snap.players[p].playerNumber :
                                        p \in DOMAIN snap.players}),
              joinedAt |-> now]
  IN  IF /\ joinGameOk(snap, userId)
         /\ \A p \in DOMAIN db.players :
              db.players[p].playerNumber # row.playerNumber
      THEN [ok |-> TRUE,
            db |-> [db EXCEPT !.players =
                      [p \in DOMAIN @ \cup {userId} |->
                         IF p = userId THEN row ELSE @[p]]]]
      ELSE [ok |-> FALSE, db |-> db]

\* leaveGame: TRUE when none of its checks throws
leaveGameOk(snap, userId) ==
  /\ userId \in DOMAIN snap.players
  /\ snap.game.status = "LOBBY"

\* leaveGame: remainingPlayers[0], the remaining player first in the order of
\* gameInclude (playerNumber asc), as a set with at most one element
firstRemaining(snap, userId) ==
  LET remainingPlayers == DOMAIN snap.players \ {userId}
  IN  {p \in remainingPlayers :
         \A q \in remainingPlayers :
           snap.players[p].playerNumber <= snap.players[q].playerNumber}

\* GameService.leaveGame (one transaction); a deleted Game row is status
\* "DELETED" with no players; returnsNull is what the caller gets
leaveGame(db, userId) ==
  LET snap == findByIdWithRelations(db)
      remainingPlayers == DOMAIN snap.players \ {userId}
      newHost == IF snap.players[userId].isHost
                 THEN firstRemaining(snap, userId) ELSE {}
  IN  IF ~leaveGameOk(snap, userId)
      THEN [ok |-> FALSE, db |-> db, returnsNull |-> FALSE]
      ELSE IF remainingPlayers = {}
      THEN [ok |-> TRUE, returnsNull |-> TRUE,
            db |-> [db EXCEPT !.players = <<>>, !.game.status = "DELETED"]]
      ELSE [ok |-> TRUE, returnsNull |-> FALSE,
            db |-> [db EXCEPT !.players =
                      [p \in remainingPlayers |->
                         IF p \in newHost
                         THEN [snap.players[p] EXCEPT !.isHost = TRUE]
                         ELSE snap.players[p]]]]

\* the time of a join: later than the joinedAt of every player in the game
Now == 1 + Cardinality({t \in 1..MaxClock :
                           \E p \in DOMAIN players : players[p].joinedAt >= t})

\* handleJoinGame
HandleJoinGame ==
  \E userId \in Players :
    \E r \in {joinGame(Db, userId, Now)} :
      /\ Now <= MaxClock
      /\ r.ok
      /\ Commit(r.db, timers, result)
      /\ UNCHANGED <<lastVote, calls>>

\* handleLeaveGame
HandleLeaveGame ==
  \E userId \in Players :
    \E r \in {leaveGame(Db, userId)} :
      /\ r.ok
      /\ Commit(r.db, timers, result)
      /\ UNCHANGED <<lastVote, calls>>

\* SpecLobby: a lobby created by player 1, which the players join and leave
InitLobby ==
  /\ StateIs([LobbyDb(RoleCounts(1, 0, 0, 0, 1, 0)) EXCEPT
                !.players = [p \in {1} |->
                               [role |-> "null", isAlive |-> TRUE,
                                isHost |-> TRUE, playerNumber |-> 1,
                                joinedAt |-> 1]]],
             NoTimers, NoResult)
  /\ calls = NoCalls

NextLobby == HandleJoinGame \/ HandleLeaveGame

SpecLobby == InitLobby /\ [][NextLobby]_vars

\* SpecCast: the first DISCUSSION and VOTING phases with the awaits of the
\* phase-end visible, as in SpecConc, and the broadcast apart from the commit:
\* GameService.processPhaseEnd updates the Game row, then awaits createEvent
\* and the timer rows, and only then GameSocketHandler.processPhaseEnd emits
\* PHASE_CHANGED.  calls.committed lists the <<phase, dayNumber>> whose end
\* was committed, calls.sent those whose PHASE_CHANGED was emitted.
FirstDiscussion(roles, victim) ==
  LET d0 == startGame(LobbyDb(VoteRoles), roles)
      d1 == performNightAction(d0, 1, "WEREWOLF_KILL", victim, NoPlayer).db
      e1 == socketPhaseEnd(d1, startPhaseTimer(NoTimers, "NIGHT"))
  IN  [db |-> e1.db, timers |-> [e1.timers EXCEPT !["NIGHT"] = @ - 1],
       result |-> e1.result]

InitCast ==
  \E roles \in assignRoles(NumPlayers, VoteRoles) :
    \E s \in {FirstDiscussion(roles, NumPlayers)} :
      /\ roles[1] = "WEREWOLF"
      /\ StateIs(s.db, s.timers, s.result)
      /\ calls = [tasks |-> [t \in Tasks |-> IdleCall],
                  resolved |-> EmptyBag, committed |-> <<>>, sent |-> <<>>]

\* the phase and day whose end call t is processing
EndOf(t) ==
  <<calls.tasks[t].snap.game.phase, calls.tasks[t].snap.game.dayNumber>>

\* GameService.processPhaseEnd after the switch: the update of the Game row
CallUpdates(t) ==
  /\ calls.tasks[t].pc = "commit"
  /\ \E c \in {commitPhaseEnd(calls.tasks[t].snap,
                               [events |-> calls.tasks[t].events,
                                db |-> Db])} :
       Commit(c.db, timers, result)
  /\ calls' = [calls EXCEPT !.tasks[t].pc = "emit",
                            !.committed = Append(@, EndOf(t))]
  /\ UNCHANGED lastVote

\* GameSocketHandler.processPhaseEnd after the service call returned: the
\* emit of PHASE_CHANGED and the timer of the new phase
CallEmits(t) ==
  /\ calls.tasks[t].pc = "emit"
  /\ \E c \in {commitPhaseEnd(calls.tasks[t].snap,
                               [events |-> calls.tasks[t].events,
                                db |-> Db])} :
       /\ timers' = IF c.result.gameEnded THEN timers
                    ELSE startPhaseTimer(timers, c.result.newPhase)
       /\ result' = c.result
  /\ calls' = [calls EXCEPT !.tasks[t] = IdleCall,
                            !.sent = Append(@, EndOf(t))]
  /\ UNCHANGED <<game, players, roleStates, votes, actions, loverPairs,
                 lastVote>>

CastVoteArrives == Len(calls.committed) < MaxCasts /\ VoteArrives

CastTimerCallback ==
  \E phase \in {"DISCUSSION", "VOTING"} :
    Len(calls.committed) < MaxCasts /\ TimerCallback(phase)

CastStep ==
  \E t \in Tasks :
    CallReads(t) \/ CallResolves(t) \/ CallUpdates(t) \/ CallEmits(t)

NextCast == CastVoteArrives \/ CastTimerCallback \/ CastStep

SpecCast == InitCast /\ [][NextCast]_vars

\* SpecTimer: the game of Spec (a werewolf and a witch) from its first night,
\* with the day of every pending setTimeout callback kept: calls.pending[ph]
\* is the bag of the dayNumbers at which the pending timers of phase ph were
\* started, and calls.fired is the <<phase, dayNumber>> of the timer that
\* fired last.  The timers of one phase have one duration, so they fire in
\* the order in which they were started.
NoneFired == <<"WAITING", 0>>

\* startPhaseTimer seen from the pending bags: the timer added between the
\* counts `before` and `after` was started at `day`
pendingAfter(pending, before, after, day) ==
  [ph \in TimedPhases |->
     IF after[ph] > before[ph] THEN pending[ph] (+) SetToBag({day})
     ELSE pending[ph]]

\* the day of the oldest pending timer of a phase
oldest(days) ==
  CHOOSE d \in BagToSet(days) : \A o \in BagToSet(days) : d <= o

InitTimer ==
  \E roles \in assignRoles(NumPlayers, RoleCounts(1, 0, 0, 0, 1, 0)) :
    /\ StateIs(startGame(LobbyDb(RoleCounts(1, 0, 0, 0, 1, 0)), roles),
               startPhaseTimer(NoTimers, "NIGHT"), NoResult)
    /\ calls = [pending |-> [ph \in TimedPhases |->
                               IF ph = "NIGHT" THEN SetToBag({FirstDay})
                               ELSE EmptyBag],
                fired |-> NoneFired]

\* handleNightAction, with the timer it may start
TimedNightAction ==
  \E userId \in Players, action \in ActionType, targetId \in Players :
    \E r \in {performNightAction(Db, userId, action, targetId, NoPlayer)} :
      /\ game.dayNumber <= MaxDay + 1
      /\ Cardinality(actions) <= MaxActionRows
      /\ r.ok
      /\ IF r.allActionsComplete
         THEN \E e \in {socketPhaseEnd(r.db, timers)} :
                /\ Commit(e.db, e.timers, e.result)
                /\ calls' = [calls EXCEPT !.pending =
                               pendingAfter(@, timers, e.timers,
                                            e.db.game.dayNumber)]
         ELSE Commit(r.db, timers, result) /\ calls' = calls
      /\ UNCHANGED lastVote

\* the setTimeout callback of the oldest pending timer of a phase
TimedTimerFire ==
  \E phase \in TimedPhases :
    /\ game.dayNumber <= MaxDay + 1
    /\ timers[phase] > 0
    /\ \E d \in {oldest(calls.pending[phase])} :
         \E tm \in {[timers EXCEPT ![phase] = @ - 1]},
            left \in {[calls.pending EXCEPT
                         ![phase] = @ (-) SetToBag({d})]} :
           IF game.phase = phase /\ game.status = "IN_PROGRESS"
           THEN \E e \in {socketPhaseEnd(Db, tm)} :
                  /\ Commit(e.db, e.timers, e.result)
                  /\ calls' = [pending |->
                                 pendingAfter(left, tm, e.timers,
                                              e.db.game.dayNumber),
                               fired |-> <<phase, d>>]
           ELSE /\ Commit(Db, tm, result)
                /\ calls' = [pending |-> left, fired |-> <<phase, d>>]
    /\ UNCHANGED lastVote

NextTimer == TimedNightAction \/ TimedTimerFire

SpecTimer == InitTimer /\ [][NextTimer]_vars

\* SpecHunter: the game of Spec with a werewolf and a hunter
HunterRoles == RoleCounts(1, 0, 0, 1, 0, 0)

InitHunter == Lobby(HunterRoles)

SpecHunter == InitHunter /\ [][Next]_vars

\* ------------------------------------------------------------- delivery
\* an optional field that is left out of a payload
Undefined == "undefined"

\* mutant of toGameStateForPlayer: every entry of players carries its role
toGameStateWithRoles(db, viewerId) ==
  [status |-> db.game.status, phase |-> db.game.phase,
   dayNumber |-> db.game.dayNumber, settings |-> db.game.settings,
   players |-> [p \in DOMAIN db.players |->
                  [id |-> p, isHost |-> db.players[p].isHost,
                   isAlive |-> db.players[p].isAlive,
                   role |-> db.players[p].role]],
   myRole |-> IF viewerId \in DOMAIN db.players
                 /\ db.players[viewerId].role # "null"
              THEN db.players[viewerId].role ELSE Undefined,
   myRoleState |-> IF viewerId \in DOMAIN db.players
                      /\ viewerId \in DOMAIN db.roleStates
                   THEN db.roleStates[viewerId] ELSE Undefined]

\* toGameStateForPlayer(game, viewerId): the fields computed from the Game,
\* GamePlayer and RoleState rows (id, code, locale, nickname and the timer
\* rows are not modelled)
toGameStateForPlayer(db, viewerId) ==
  [status |-> db.game.status, phase |-> db.game.phase,
   dayNumber |-> db.game.dayNumber, settings |-> db.game.settings,
   players |-> [p \in DOMAIN db.players |->
                  [id |-> p, isHost |-> db.players[p].isHost,
                   isAlive |-> db.players[p].isAlive,
                   role |-> IF p = viewerId THEN db.players[p].role
                            ELSE Undefined]],
   myRole |-> IF viewerId \in DOMAIN db.players
                 /\ db.players[viewerId].role # "null"
              THEN db.players[viewerId].role ELSE Undefined,
   myRoleState |-> IF viewerId \in DOMAIN db.players
                      /\ viewerId \in DOMAIN db.roleStates
                   THEN db.roleStates[viewerId] ELSE Undefined]

\* joinRoom in handleJoinGame: the users whose sockets are in the game's room
roomOf(db) == DOMAIN db.players

\* GameSocketHandler.processPhaseEnd, emitToRoom(PHASE_CHANGED, {newPhase,
\* dayNumber, events: result.events}): the users each event of the result
\* is sent to
phaseChangedTo(db, res) == [e \in BagToSet(res.events) |-> roomOf(db)]

\* ------------------------------------------------ overlapping lobby calls
\* SpecOverlap: joinGame, leaveGame and startGame calls on one lobby, each in
\* two steps: its read of the game (findByIdWithRelations) and, after the
\* await, its writes. calls.tasks holds what each user's call in flight has
\* read; a user has at most one call in flight, so a GamePlayer row is named
\* by its user. calls.thrown holds the operations whose writes have thrown.
MaxOverlapCalls == 5

IdleTask == [op |-> "idle", snap |-> <<>>]

\* mutant of addPlayerOk: only (game, user) is unique
addPlayerOkUserKeyOnly(db, userId, playerNumber) ==
  /\ db.game.status # "DELETED"
  /\ userId \notin DOMAIN db.players

\* the constraints of the store on a new GamePlayer row: its Game row exists,
\* @@unique([gameId, userId]) and @@unique([gameId, playerNumber])
addPlayerOk(db, userId, playerNumber) ==
  /\ db.game.status # "DELETED"
  /\ userId \notin DOMAIN db.players
  /\ \A p \in DOMAIN db.players : db.players[p].playerNumber # playerNumber

\* joinGame after its read: findNextPlayerNumber over the players read, then
\* addPlayer on the tables as they are now (a rejected row throws)
joinGameWrites(snap, db, userId) ==
  LET row == [role |-> "null", isAlive |-> TRUE, isHost |-> FALSE,
              playerNumber |->
                findNextPlayerNumber({snap.players[p].playerNumber :
                                        p \in DOMAIN snap.players})]
  IN  IF addPlayerOk(db, userId, row.playerNumber)
      THEN [ok |-> TRUE,
            db |-> [db EXCEPT !.players =
                      [p \in DOMAIN @ \cup {userId} |->
                         IF p = userId THEN row ELSE @[p]]]]
      ELSE [ok |-> FALSE, db |-> db]

\* leaveGame after its read, the transaction: removePlayer on the tables as
\* they are now, remainingPlayers and the new host from the players read;
\* delete and update of a row that is gone throw and roll the transaction back
leaveGameCommits(snap, db, userId) ==
  LET remainingPlayers == DOMAIN snap.players \ {userId}
      newHost == IF snap.players[userId].isHost
                 THEN firstRemaining(snap, userId) ELSE {}
  IN  IF userId \notin DOMAIN db.players
      THEN [ok |-> FALSE, db |-> db]
      ELSE IF remainingPlayers = {}
      THEN [ok |-> TRUE,
            db |-> [db EXCEPT !.players = <<>>, !.roleStates = <<>>,
                              !.game.status = "DELETED"]]
      ELSE IF ~(newHost \subseteq DOMAIN db.players)
      THEN [ok |-> FALSE, db |-> db]
      ELSE [ok |-> TRUE,
            db |-> [db EXCEPT !.players =
                      [p \in DOMAIN @ \ {userId} |->
                         IF p \in newHost
                         THEN [@[p] EXCEPT !.isHost = TRUE]
                         ELSE @[p]]]]

\* startGame after its read, the transaction: a role and a RoleState for
\* every player read, then the Game row; updatePlayer of a row that is gone
\* and a second RoleState of one player throw and roll the transaction back
startGameCommits(snap, db, roles) ==
  IF /\ db.game.status # "DELETED"
     /\ DOMAIN snap.players \subseteq DOMAIN db.players
     /\ DOMAIN snap.players \cap DOMAIN db.roleStates = {}
  THEN [ok |-> TRUE,
        db |-> [db EXCEPT
                  !.players = [p \in DOMAIN @ |->
                                 IF p \in DOMAIN snap.players
                                 THEN [@[p] EXCEPT !.role =
                                         roles[PlayerIndex(snap.players, p)]]
                                 ELSE @[p]],
                  !.roleStates = [p \in DOMAIN snap.players |->
                                    [healPotionUsed |-> FALSE,
                                     poisonPotionUsed |-> FALSE,
                                     hasShot |-> FALSE]],
                  !.game.status = "IN_PROGRESS",
                  !.game.phase = "NIGHT",
                  !.game.dayNumber = 1]]
  ELSE [ok |-> FALSE, db |-> db]

\* a lobby of n players: createGame by player 1, then joinGame by 2..n
InitOverlap ==
  \E maxPlayers \in MinPlayers..NumPlayers : \E n \in 1..maxPlayers :
    /\ StateIs([LobbyDb(RoleCounts(1, 0, 0, 0, 1, 0)) EXCEPT
                  !.players = [p \in 1..n |->
                                 [role |-> "null", isAlive |-> TRUE,
                                  isHost |-> p = 1, playerNumber |-> p]],
                  !.game.settings.maxPlayers = maxPlayers],
               NoTimers, NoResult)
    /\ calls = [tasks |-> [u \in Players |-> IdleTask], started |-> 0,
                thrown |-> {}]

\* a call by userId reads the game and passes its checks
CallStarts(userId, op) ==
  /\ calls.tasks[userId].op = "idle"
  /\ calls.started < MaxOverlapCalls
  /\ game.status # "DELETED"
  /\ calls' = [tasks |-> [calls.tasks EXCEPT ![userId] =
                            [op |-> op, snap |-> findByIdWithRelations(Db)]],
               started |-> calls.started + 1, thrown |-> calls.thrown]
  /\ UNCHANGED <<game, players, roleStates, votes, actions, loverPairs,
                 timers, result, lastVote>>

\* the call of userId has written (or thrown): the tables after it
CallEnds(userId, r, tm) ==
  /\ Commit(r.db, tm, result)
  /\ calls' = [calls EXCEPT
                 !.tasks[userId] = IdleTask,
                 !.thrown = IF r.ok THEN @
                            ELSE @ \cup {calls.tasks[userId].op}]
  /\ UNCHANGED lastVote

JoinReads ==
  \E userId \in Players :
    /\ joinGameOk(findByIdWithRelations(Db), userId)
    /\ CallStarts(userId, "join")

JoinWrites ==
  \E userId \in Players :
    /\ calls.tasks[userId].op = "join"
    /\ CallEnds(userId,
                joinGameWrites(calls.tasks[userId].snap, Db, userId),
                timers)

LeaveReads ==
  \E userId \in Players :
    /\ leaveGameOk(findByIdWithRelations(Db), userId)
    /\ CallStarts(userId, "leave")

LeaveCommits ==
  \E userId \in Players :
    /\ calls.tasks[userId].op = "leave"
    /\ CallEnds(userId,
                leaveGameCommits(calls.tasks[userId].snap, Db, userId),
                timers)

StartReads ==
  \E userId \in Players :
    /\ startGameOk(findByIdWithRelations(Db), userId)
    /\ CallStarts(userId, "start")

\* handleStartGame starts the night timer when startGame returns
StartCommits ==
  \E userId \in Players :
    /\ calls.tasks[userId].op = "start"
    /\ \E roles \in assignRoles(
                      Cardinality(DOMAIN calls.tasks[userId].snap.players),
                      game.settings.roles) :
         \E r \in {startGameCommits(calls.tasks[userId].snap, Db, roles)} :
           CallEnds(userId, r,
                    IF r.ok THEN startPhaseTimer(timers, "NIGHT")
                    ELSE timers)

NextOverlap ==
  \/ JoinReads
  \/ JoinWrites
  \/ LeaveReads
  \/ LeaveCommits
  \/ StartReads
  \/ StartCommits

SpecOverlap == InitOverlap /\ [][NextOverlap]_vars

\* ------------------------------------------------ overlapping night actions
\* SpecActs: the first night of a game with a werewolf and a witch, with
\* performNightAction in two steps: its read of the game with the checks on
\* it, and, after the await, createAction and what follows. calls.tasks holds
\* the calls that have read and not yet created. The actions table is a set of
\* rows without their ids, so two equal rows of one actor count once.
MaxActsInFlight == 2

InitActs ==
  \E roles \in assignRoles(NumPlayers, RoleCounts(1, 0, 0, 0, 1, 0)) :
    /\ StateIs(startGame(LobbyDb(RoleCounts(1, 0, 0, 0, 1, 0)), roles),
               startPhaseTimer(NoTimers, "NIGHT"), NoResult)
    /\ calls = [tasks |-> {}]

\* performNightAction up to "Check for existing action this phase"
ActionReads ==
  \E userId \in Players, action \in ActionType, targetId \in Players :
    /\ game.dayNumber <= FirstDay
    /\ Cardinality(calls.tasks) < MaxActsInFlight
    /\ performNightActionOk(findByIdWithRelations(Db), userId, action,
                            targetId, NoPlayer)
    /\ calls' = [tasks |-> calls.tasks \cup
                   {[userId |-> userId, action |-> action,
                     targetId |-> targetId,
                     snap |-> findByIdWithRelations(Db)]}]
    /\ UNCHANGED <<game, players, roleStates, votes, actions, loverPairs,
                   timers, result, lastVote>>

\* performNightAction from createAction on, then handleNightAction:
\* processPhaseEnd when the game that was read has all required actions
ActionCreates ==
  \E t \in calls.tasks :
    LET row == [playerId |-> t.userId, action |-> t.action,
                targetId |-> t.targetId, secondaryTargetId |-> NoPlayer,
                phase |-> t.snap.game.phase,
                dayNumber |-> t.snap.game.dayNumber, processed |-> FALSE]
        db == [Db EXCEPT !.actions = @ \cup {row}]
    IN  /\ IF checkAllNightActionsComplete(t.snap)
           THEN \E e \in {socketPhaseEnd(db, timers)} :
                  Commit(e.db, e.timers, e.result)
           ELSE Commit(db, timers, result)
        /\ calls' = [tasks |-> calls.tasks \ {t}]
        /\ UNCHANGED lastVote

NextActs == ActionReads \/ ActionCreates \/ NightTimerExpires

SpecActs == InitActs /\ [][NextActs]_vars

\* ------------------------------------------------------------- liveness
\* SpecLive: the handlers of Spec on a game of one werewolf and villagers, in
\* which every pending setTimeout callback is run at some time (the event loop
\* runs a due callback; no handler clears one), whatever the players do or do
\* not do
SpecLive ==
  /\ Lobby(RoleCounts(1, 0, 0, 0, 0, 0))
  /\ [][Next]_vars
  /\ \A phase \in TimedPhases : WF_vars(TimerFire(phase, MaxDay))

\* ------------------------------------------------------------ properties
\* a step in which a phase-end that read phase `ph` committed the Game row
EndsPhase(ph) ==
  game.status = "IN_PROGRESS" /\ game.phase = ph /\ game' # game

WerewolvesAlive(ps) ==
  {p \in DOMAIN ps : ps[p].isAlive /\ ps[p].role = "WEREWOLF"}

OthersAlive(ps) ==
  {p \in DOMAIN ps : ps[p].isAlive /\ ps[p].role # "WEREWOLF"}

\* the players whose isAlive went from true to false in this step
Dies(p) == players[p].isAlive /\ ~players'[p].isAlive

GameOver == game.status = "COMPLETED" /\ game.phase = "GAME_OVER"

\* the NIGHT actions of day d that a resolution has consumed
ResolvedNight(rows, d) ==
  {a \in rows : a.dayNumber = d /\ a.phase = "NIGHT" /\ a.processed}

KillsOn(p, rows) ==
  Cardinality({a \in rows : a.action \in {"WEREWOLF_KILL", "WITCH_KILL"}
                            /\ a.targetId = p})

SavesOn(p, rows) ==
  Cardinality({a \in rows : a.action \in {"DOCTOR_SAVE", "WITCH_SAVE"}
                            /\ a.targetId = p})

\* the stored votes of day d, phase VOTING, that name p
VotesFor(p, rows, d) ==
  Cardinality({v \in rows : v.dayNumber = d /\ v.phase = "VOTING"
                            /\ v.targetId = p})

\* C1: a phase-end whose night or vote resolution leaves no werewolf alive,
\* or at least as many werewolves as others, commits COMPLETED / GAME_OVER
\* and a winning side in that same call.
C1_WinDecidedOnPostResolutionState ==
  [][((EndsPhase("NIGHT") \/ EndsPhase("VOTING"))
      /\ (\/ WerewolvesAlive(players') = {}
          \/ Cardinality(WerewolvesAlive(players'))
               >= Cardinality(OthersAlive(players'))))
     => (/\ game'.status = "COMPLETED"
         /\ game'.phase = "GAME_OVER"
         /\ game'.winningSide # NoSide)]_vars

\* C2: when the timer expiry and the last vote race for one phase of one day,
\* one of the two calls runs the resolution and the other changes nothing:
\* no <<phase, dayNumber>> is resolved more than once.
C2_ResolvedOncePerPhase ==
  \A k \in BagToSet(calls.resolved) : CopiesIn(k, calls.resolved) <= 1

\* C3: a phase-end that does not end the game moves NIGHT -> DISCUSSION,
\* DISCUSSION -> VOTING or VOTING -> NIGHT; dayNumber grows by one on
\* VOTING -> NIGHT and is unchanged on the other two.
C3_PhaseCycle ==
  [][(game.status = "IN_PROGRESS" /\ game' # game
      /\ game'.status = "IN_PROGRESS")
     => \/ /\ game.phase = "NIGHT" /\ game'.phase = "DISCUSSION"
           /\ game'.dayNumber = game.dayNumber
        \/ /\ game.phase = "DISCUSSION" /\ game'.phase = "VOTING"
           /\ game'.dayNumber = game.dayNumber
        \/ /\ game.phase = "VOTING" /\ game'.phase = "NIGHT"
           /\ game'.dayNumber = game.dayNumber + 1]_vars

C3_Witness ==
  /\ game.status = "IN_PROGRESS" /\ game.phase = "NIGHT"
  /\ game.dayNumber = 2
  /\ result.newPhase = "NIGHT" /\ ~result.gameEnded

\* C4: once the game is COMPLETED / GAME_OVER every processPhaseEnd, castVote
\* and performNightAction is rejected, and status, phase, dayNumber,
\* winningSide and every isAlive keep their values.
C4_CallsRejected ==
  GameOver =>
    /\ ~processPhaseEnd(Db).ok
    /\ \A u \in Players, t \in Players \cup {NoPlayer} : ~castVote(Db, u, t).ok
    /\ \A u \in Players, a \in ActionType, t \in Players,
          s \in Players \cup {NoPlayer} :
         ~performNightAction(Db, u, a, t, s).ok

C4_GameOverIsTerminal ==
  /\ []C4_CallsRejected
  /\ [][GameOver =>
          /\ game' = game
          /\ \A p \in Players : players'[p].isAlive = players[p].isAlive]_vars

C4_Witness ==
  GameOver /\ result.gameEnded /\ result.newPhase = "GAME_OVER"
           /\ game.winningSide = result.winningSide

\* C5 as claimed: in a night resolution a player with exactly one kill and
\* one save survives, and a player with two kills and one save dies.
C5_EachSaveCancelsOneKill ==
  [][EndsPhase("NIGHT") =>
       \A p \in Players :
         LET rows == ResolvedNight(actions', game.dayNumber)
         IN  /\ (KillsOn(p, rows) = 1 /\ SavesOn(p, rows) = 1)
                  => players'[p].isAlive
             /\ (KillsOn(p, rows) = 2 /\ SavesOn(p, rows) = 1)
                  => ~players'[p].isAlive]_vars

\* C5 amended: one save cancels every kill on that player: a player with
\* one kill and one save survives, and so does a player with two kills and
\* one save.
C5_SaveCancelsEveryKill ==
  [][EndsPhase("NIGHT") =>
       \A p \in Players :
         LET rows == ResolvedNight(actions', game.dayNumber)
         IN  /\ (KillsOn(p, rows) = 1 /\ SavesOn(p, rows) = 1)
                  => players'[p].isAlive
             /\ (KillsOn(p, rows) = 2 /\ SavesOn(p, rows) = 1)
                  => players'[p].isAlive]_vars

C5_Witness ==
  /\ game.phase = "DISCUSSION"
  /\ \E p \in Players :
       LET rows == ResolvedNight(actions, game.dayNumber)
       IN  KillsOn(p, rows) = 2 /\ SavesOn(p, rows) = 1
           /\ players[p].isAlive

\* C6: night resolution sets a player dead iff at least one kill action of
\* the night targets them and no save action of the night does.
C6_DiesIffKilledAndNotSaved ==
  [][EndsPhase("NIGHT") =>
       \A p \in Players :
         LET rows == ResolvedNight(actions', game.dayNumber)
         IN  Dies(p) <=> (KillsOn(p, rows) >= 1 /\ SavesOn(p, rows) = 0)]_vars

C6_Witness ==
  /\ game.phase = "DISCUSSION"
  /\ LET rows == ResolvedNight(actions, game.dayNumber)
     IN  /\ \E p \in Players :
              KillsOn(p, rows) >= 1 /\ SavesOn(p, rows) = 0
              /\ ~players[p].isAlive
         /\ \E q \in Players :
              /\ \E a \in rows : a.action = "WEREWOLF_KILL" /\ a.targetId = q
              /\ \E a \in rows : a.action = "DOCTOR_SAVE" /\ a.targetId = q
              /\ players[q].isAlive

\* C7: a second night resolution right after the first (on a fresh snapshot)
\* changes no isAlive, no RoleState flag and no action, and returns no event.
C7_NightResolutionIdempotent ==
  [][EndsPhase("NIGHT") =>
       \E again \in {processNightActions(findByIdWithRelations(Db'), Db')} :
         /\ again.db = Db'
         /\ again.events = EmptyBag]_vars

C7_Witness ==
  /\ game.phase = "DISCUSSION"
  /\ \E a \in ResolvedNight(actions, game.dayNumber) :
       /\ a.action = "WITCH_KILL"
       /\ ~players[a.targetId].isAlive
       /\ roleStates[a.playerId].poisonPotionUsed

\* C8: vote resolution eliminates p iff p alone holds the greatest number of
\* non-skip votes of the day and that number is positive; otherwise nobody's
\* isAlive changes.
C8_StrictUniqueMaximum ==
  [][EndsPhase("VOTING") =>
       \A p \in Players :
         Dies(p) <=>
           /\ VotesFor(p, votes', game.dayNumber) > 0
           /\ \A q \in Players \ {p} :
                VotesFor(q, votes', game.dayNumber)
                  < VotesFor(p, votes', game.dayNumber)]_vars

C8_Witness ==
  /\ game.phase = "NIGHT" /\ game.dayNumber = 2
  /\ \E p, q \in Players :
       /\ p # q
       /\ ~players[p].isAlive
       /\ VotesFor(p, votes, 1) >= 2
       /\ VotesFor(q, votes, 1) >= 1
       /\ \E e \in BagToSet(result.events) :
            e.type = "PLAYER_ELIMINATED" /\ e.playerId = p

\* four alive players, all of whom voted, 2-1-1 over three targets
TwoOneOne(ps, rows, d) ==
  /\ Cardinality({p \in Players : ps[p].isAlive}) = 4
  /\ Cardinality({v \in rows : v.dayNumber = d /\ v.phase = "VOTING"
                               /\ v.targetId # NoPlayer}) = 4
  /\ \E a, b, c \in Players :
       /\ a # b /\ a # c /\ b # c
       /\ VotesFor(a, rows, d) = 2
       /\ VotesFor(b, rows, d) = 1
       /\ VotesFor(c, rows, d) = 1

\* C9 as claimed: a 2-1-1 vote of four alive players eliminates nobody, and
\* the phase advances to NIGHT with dayNumber incremented.
C9_TwoOneOneEliminatesNobody ==
  [][(EndsPhase("VOTING") /\ TwoOneOne(players, votes', game.dayNumber))
     => /\ \A p \in Players : players'[p].isAlive = players[p].isAlive
        /\ game'.phase = "NIGHT"
        /\ game'.dayNumber = game.dayNumber + 1]_vars

\* C9 amended: a 2-1-1 vote of four alive players eliminates the player who
\* holds the two votes and nobody else; when a werewolf is then alive and
\* the werewolves are fewer than the others, the phase advances to NIGHT
\* with dayNumber incremented.
C9_TwoOneOneEliminatesTheLeader ==
  [][(EndsPhase("VOTING") /\ TwoOneOne(players, votes', game.dayNumber))
     => /\ \A p \in Players :
             Dies(p) <=> VotesFor(p, votes', game.dayNumber) = 2
        /\ (/\ WerewolvesAlive(players') # {}
            /\ Cardinality(WerewolvesAlive(players'))
                 < Cardinality(OthersAlive(players')))
             => /\ game'.phase = "NIGHT"
                /\ game'.dayNumber = game.dayNumber + 1]_vars

C9_Witness ==
  /\ game.phase = "NIGHT" /\ game.dayNumber = 2
  /\ WerewolvesAlive(players) # {}
  /\ Cardinality(WerewolvesAlive(players)) < Cardinality(OthersAlive(players))
  /\ \E p \in Players :
       /\ ~players[p].isAlive
       /\ VotesFor(p, votes, 1) = 2
       /\ TwoOneOne([players EXCEPT ![p].isAlive = TRUE], votes, 1)
       /\ \E e \in BagToSet(result.events) :
            e.type = "PLAYER_ELIMINATED" /\ e.playerId = p
                                         /\ e.voteCount = 2

\* C10: a castVote that follows an earlier vote of the same voter in the same
\* phase and day leaves exactly one row for that key, carrying the latest
\* target, and vote resolution counts one vote per voter.
C10_OneRowPerKey ==
  \A v, w \in votes :
    (v.voterId = w.voterId /\ v.phase = w.phase
     /\ v.dayNumber = w.dayNumber /\ v.round = w.round) => v = w

C10_LatestVoteStored ==
  /\ []C10_OneRowPerKey
  /\ [][(lastVote' # lastVote \/ votes' # votes) =>
          /\ {v \in votes' : /\ v.voterId = lastVote'.userId
                             /\ v.phase = game.phase
                             /\ v.dayNumber = game.dayNumber}
               = {[voterId |-> lastVote'.userId,
                   targetId |-> lastVote'.targetId,
                   phase |-> game.phase, dayNumber |-> game.dayNumber,
                   round |-> 1]}
          /\ {v \in votes' : v.voterId # lastVote'.userId}
               = {v \in votes : v.voterId # lastVote'.userId}]_vars
  /\ [][EndsPhase("VOTING") =>
          \A e \in BagToSet(result'.events) :
            e.type = "PLAYER_ELIMINATED" =>
              e.voteCount =
                Cardinality({u \in Players :
                  \E v \in votes' : /\ v.voterId = u
                                    /\ v.targetId = e.playerId
                                    /\ v.dayNumber = game.dayNumber
                                    /\ v.phase = "VOTING"})]_vars

C10_Witness ==
  /\ lastVote.updated
  /\ \E v \in votes :
       /\ v.voterId = lastVote.userId /\ v.targetId = lastVote.targetId
       /\ v.targetId # NoPlayer
       /\ \E e \in BagToSet(result.events) :
            e.type = "PLAYER_ELIMINATED" /\ e.playerId = v.targetId
                                         /\ e.voteCount = 1

\* the players alive in the tables
Alive == {p \in Players : players[p].isAlive}

\* C11: when exactly two players are alive and they are the two members of a
\* LoverPair, checkWinConditions returns gameEnded, LOVERS, and those two
\* players as winners.
C11_LastTwoLoversWin ==
  \E w \in {checkWinConditions(findByIdWithRelations(Db))} :
    (/\ Cardinality(Alive) = 2
     /\ \E lp \in loverPairs : {lp.player1Id, lp.player2Id} = Alive)
    => (w.gameEnded /\ w.winningSide = "LOVERS" /\ w.winners = Alive)

\* C12: with no werewolf alive checkWinConditions returns VILLAGE and the
\* alive non-werewolves (also when nobody is alive); otherwise, with at least
\* as many werewolves as others alive, WEREWOLF and the alive werewolves; it
\* never returns WEREWOLF when no werewolf is alive.
C12_VillageBeforeParity ==
  \E w \in {checkWinConditions(findByIdWithRelations(Db))} :
    /\ WerewolvesAlive(players) = {}
         => (w.gameEnded /\ w.winningSide = "VILLAGE"
             /\ w.winners = OthersAlive(players))
    /\ (/\ WerewolvesAlive(players) # {}
        /\ Cardinality(WerewolvesAlive(players))
             >= Cardinality(OthersAlive(players)))
         => (w.gameEnded /\ w.winningSide = "WEREWOLF"
             /\ w.winners = WerewolvesAlive(players))
    /\ w.winningSide = "WEREWOLF" => WerewolvesAlive(players) # {}

C12_Witness ==
  /\ Alive = {}
  /\ result.gameEnded /\ result.winningSide = "VILLAGE"
  /\ result.winners = {}

\* the players a night resolution kills directly: a kill and no save
DirectNight(rows) ==
  {p \in Players : KillsOn(p, rows) >= 1 /\ SavesOn(p, rows) = 0}

\* the player a vote resolution eliminates directly: the strict maximum
DirectVote(rows, d) ==
  {p \in Players :
     /\ VotesFor(p, rows, d) > 0
     /\ \A q \in Players \ {p} : VotesFor(q, rows, d) < VotesFor(p, rows, d)}

\* the LoverPair partners of the players of D
Partners(D) ==
  {q \in Players : \E lp \in loverPairs, p \in D :
     q # p /\ {lp.player1Id, lp.player2Id} = {p, q}}

\* C13: in a night or vote resolution the partner of every directly killed
\* or eliminated member of a LoverPair is dead afterwards, and nobody dies
\* but the direct victims and their partners.
C13_LoverCascade ==
  /\ [][EndsPhase("NIGHT") =>
          \E D \in {DirectNight(ResolvedNight(actions', game.dayNumber))} :
            /\ \A q \in Partners(D) : ~players'[q].isAlive
            /\ \A p \in Players : Dies(p) => p \in D \cup Partners(D)]_vars
  /\ [][EndsPhase("VOTING") =>
          \E D \in {DirectVote(votes', game.dayNumber)} :
            /\ \A q \in Partners(D) : ~players'[q].isAlive
            /\ \A p \in Players : Dies(p) => p \in D \cup Partners(D)]_vars

C13_Witness ==
  /\ game.phase = "DISCUSSION"
  /\ \E D \in {DirectNight(ResolvedNight(actions, game.dayNumber))} :
       /\ D # {}
       /\ Partners(D) \ D # {}
       /\ \A q \in D \cup Partners(D) : ~players[q].isAlive
       /\ \E p \in Players \ (D \cup Partners(D)) : players[p].isAlive
       /\ \E e \in BagToSet(result.events) :
            e.type = "PLAYER_KILLED" /\ e.cause = "heartbreak"
                                     /\ e.playerId \in Partners(D) \ D

\* C14: after the night that resolves an accepted CUPID_LINK with primary
\* target t and secondary target s a LoverPair linking t and s exists, and
\* in every state each player belongs to at most one LoverPair.
C14_AtMostOnePair ==
  \A lp, o \in loverPairs :
    ({lp.player1Id, lp.player2Id} \cap {o.player1Id, o.player2Id} # {})
      => lp = o

C14_CupidLinkCreatesPair ==
  /\ [][EndsPhase("NIGHT") =>
          \A a \in ResolvedNight(actions', game.dayNumber) :
            (a.action = "CUPID_LINK" /\ a.secondaryTargetId # NoPlayer)
              => \E lp \in loverPairs' :
                   {lp.player1Id, lp.player2Id}
                     = {a.targetId, a.secondaryTargetId}]_vars
  /\ []C14_AtMostOnePair

\* the number of entries of the role list `roles` that are r
CountOf(roles, r) == Cardinality({i \in DOMAIN roles : roles[i] = r})

\* the configured count of role r
Configured(roleConfig, r) ==
  IF r \in DOMAIN roleConfig THEN roleConfig[r] ELSE 0

TotalRoles(roleConfig) ==
  SumOver([r \in Role |-> Configured(roleConfig, r)], Role)

\* C15: for accepted settings and minPlayers <= n <= maxPlayers, assignRoles
\* returns exactly n roles: the configured counts, padded with VILLAGER when
\* they sum to less than n, and trimmed when they sum to more than n, with no
\* other role removed while a VILLAGER is left.
C15_AssignRolesFitsPlayerCount ==
  \E n \in {Cardinality(DOMAIN players)}, cfg \in {game.settings.roles} :
    (/\ game.status = "LOBBY"
     /\ game.settings.minPlayers <= n
     /\ n <= game.settings.maxPlayers)
    => \A roles \in assignRoles(n, cfg) :
         /\ Len(roles) = n
         /\ TotalRoles(cfg) <= n =>
              \A r \in Role :
                CountOf(roles, r) =
                  Configured(cfg, r)
                    + (IF r = "VILLAGER" THEN n - TotalRoles(cfg) ELSE 0)
         /\ TotalRoles(cfg) > n =>
              /\ \A r \in Role : CountOf(roles, r) <= Configured(cfg, r)
              /\ (\E r \in Role \ {"VILLAGER"} :
                    CountOf(roles, r) < Configured(cfg, r))
                   => CountOf(roles, "VILLAGER") = 0

\* the number of players whose role is r
Holding(ps, r) == Cardinality({p \in DOMAIN ps : ps[p].role = r})

\* C16: startGame with 5 joined players and roles WEREWOLF 1, SEER 1,
\* VILLAGER 3 gives each of the 5 players one role, one WEREWOLF, one SEER and
\* three VILLAGERs among them, and leaves phase NIGHT, dayNumber 1.
C16_DefaultGameOfFive ==
  [][(/\ game.status = "LOBBY" /\ game' # game
      /\ Cardinality(DOMAIN players) = 5
      /\ game.settings.roles = DefaultRoles)
     => /\ DOMAIN players' = DOMAIN players
        /\ \A p \in DOMAIN players' : players'[p].role \in Role
        /\ Holding(players', "WEREWOLF") = 1
        /\ Holding(players', "SEER") = 1
        /\ Holding(players', "VILLAGER") = 3
        /\ game'.phase = "NIGHT" /\ game'.dayNumber = 1]_vars

C16_Witness ==
  /\ game.status = "IN_PROGRESS" /\ game.phase = "NIGHT"
  /\ game.dayNumber = 1
  /\ game.settings.roles = DefaultRoles
  /\ game.settings.minPlayers = DefaultMinPlayers
  /\ Cardinality(DOMAIN players) = 5
  /\ Holding(players, "WEREWOLF") = 1 /\ Holding(players, "SEER") = 1
  /\ Holding(players, "VILLAGER") = 3

\* C17: startGame is accepted only for the host of a LOBBY game with at least
\* minPlayers players; otherwise nothing is written.  When accepted it leaves
\* IN_PROGRESS, NIGHT, day 1, a role for every player and one RoleState per
\* player with every flag false.
C17_AcceptedOnlyFrom ==
  \A u \in Players :
    startGameOk(findByIdWithRelations(Db), u)
      => /\ u \in DOMAIN players /\ players[u].isHost
         /\ game.status = "LOBBY"
         /\ Cardinality(DOMAIN players) >= game.settings.minPlayers

C17_StartGame ==
  /\ []C17_AcceptedOnlyFrom
  /\ [][(game.status # "LOBBY"
         \/ Cardinality(DOMAIN players) < game.settings.minPlayers)
        => UNCHANGED <<game, players, roleStates>>]_vars
  /\ [][(game.status = "LOBBY"
         /\ <<game, players, roleStates>>' # <<game, players, roleStates>>)
        => /\ game'.status = "IN_PROGRESS" /\ game'.phase = "NIGHT"
           /\ game'.dayNumber = 1
           /\ \A p \in DOMAIN players' : players'[p].role \in Role
           /\ DOMAIN roleStates' = DOMAIN players'
           /\ \A p \in DOMAIN roleStates' :
                /\ ~roleStates'[p].healPotionUsed
                /\ ~roleStates'[p].poisonPotionUsed
                /\ ~roleStates'[p].hasShot]_vars

C17_Witness ==
  /\ game.status = "IN_PROGRESS" /\ game.phase = "NIGHT"
  /\ game.dayNumber = 1
  /\ Cardinality(DOMAIN players) = game.settings.minPlayers
  /\ DOMAIN roleStates = DOMAIN players
  /\ \A p \in DOMAIN players :
       /\ players[p].role \in Role
       /\ ~roleStates[p].healPotionUsed /\ ~roleStates[p].poisonPotionUsed
       /\ ~roleStates[p].hasShot

\* C18: a castVote or performNightAction that is rejected leaves votes,
\* actions, role states, players and the Game row as they were.
C18_RejectedCallWritesNothing ==
  /\ \A u \in Players, t \in Players \cup {NoPlayer} :
       \E r \in {castVote(Db, u, t)} : ~r.ok => r.db = Db
  /\ \A u \in Players, a \in ActionType, t \in Players \cup {NoPlayer} :
       \A s \in SecondaryTargets(a) :
         \E r \in {performNightAction(Db, u, a, t, s)} : ~r.ok => r.db = Db

C18_Witness ==
  /\ game.phase = "NIGHT"
  /\ \E a \in actions, t \in Players :
       /\ ~a.processed /\ a.dayNumber = game.dayNumber
       /\ players[a.playerId].isAlive /\ players[t].isAlive
       /\ ~performNightAction(Db, a.playerId, a.action, t, NoPlayer).ok
  /\ \E u \in Players : players[u].isAlive /\ ~castVote(Db, u, NoPlayer).ok

\* a step in which the phase-end started by the timer of the current phase
\* did not commit the Game row
PhaseEndFailed ==
  /\ game.status = "IN_PROGRESS" /\ game.phase \in TimedPhases
  /\ timers'[game.phase] = timers[game.phase] - 1
  /\ game' = game

\* C19: a phase-end in which a write fails part-way is aborted as a whole: no
\* player is dead, no action is processed, no role-state flag is set and the
\* phase is unchanged.
C19_FailedPhaseEndAborts ==
  [][PhaseEndFailed => UNCHANGED <<game, players, actions, roleStates>>]_vars

\* a step of leaveGame: a player is gone
LeaveStep ==
  /\ game.status = "LOBBY"
  /\ DOMAIN players' # DOMAIN players
  /\ DOMAIN players' \subseteq DOMAIN players

\* C20: when the host leaves a LOBBY game that still has other players, the
\* remaining player who joined earliest becomes the host; when the last
\* player leaves, the game is deleted and leaveGame returns null.
C20_HostPassesToEarliestJoined ==
  /\ [][LeaveStep =>
          \A u \in DOMAIN players \ DOMAIN players' :
            /\ (players[u].isHost /\ DOMAIN players' # {}) =>
                 \A h \in DOMAIN players' :
                   players'[h].isHost <=>
                     \A q \in DOMAIN players' :
                       players[h].joinedAt <= players[q].joinedAt
            /\ DOMAIN players' = {} => game'.status = "DELETED"]_vars
  /\ [](\A u \in Players :
          \E r \in {leaveGame(Db, u)} :
            r.ok => (r.returnsNull <=> DOMAIN players = {u}))

\* C21: while the game exists and is not over (status LOBBY or IN_PROGRESS)
\* exactly one player has isHost = TRUE, and that player is alive.
C21_ExactlyOneAliveHost ==
  game.status \in {"LOBBY", "IN_PROGRESS"} =>
    /\ Cardinality({p \in DOMAIN players : players[p].isHost}) = 1
    /\ \A p \in DOMAIN players : players[p].isHost => players[p].isAlive

\* the player numbers held in the game
NumbersHeld(ps) == {ps[p].playerNumber : p \in DOMAIN ps}

\* C22: a player who joins a LOBBY game gets the lowest positive integer that
\* no current player holds (a number freed by leaveGame is given again), the
\* numbers held in a game are pairwise distinct, and a player's number never
\* changes afterwards.
C22_DistinctNumbers ==
  \A p, q \in DOMAIN players :
    players[p].playerNumber = players[q].playerNumber => p = q

C22_LowestFreeNumber ==
  /\ []C22_DistinctNumbers
  /\ [][\A u \in DOMAIN players' \ DOMAIN players :
          /\ players'[u].playerNumber \in 1..NumPlayers
          /\ players'[u].playerNumber \notin NumbersHeld(players)
          /\ \A i \in 1..(players'[u].playerNumber - 1) :
               i \in NumbersHeld(players)]_vars
  /\ [][\A p \in DOMAIN players \cap DOMAIN players' :
          players'[p].playerNumber = players[p].playerNumber]_vars

C22_Witness ==
  \E p, q \in DOMAIN players :
    /\ players[p].joinedAt > players[q].joinedAt
    /\ players[p].playerNumber < players[q].playerNumber
    /\ 1 \in NumbersHeld(players)

\* the flag of a RoleState that gates `action`
FlagOf(rs, action) ==
  CASE action = "WITCH_SAVE" -> rs.healPotionUsed
    [] action = "WITCH_KILL" -> rs.poisonPotionUsed
    [] action = "HUNTER_SHOOT" -> rs.hasShot
    [] OTHER -> FALSE

GatedActions == {"WITCH_SAVE", "WITCH_KILL", "HUNTER_SHOOT"}

\* performNightAction(u, action, ...) is rejected for every target
NeverAccepted(u, action) ==
  \A t \in Players, s \in Players \cup {NoPlayer} :
    ~performNightAction(Db, u, action, t, s).ok

\* C23: healPotionUsed, poisonPotionUsed and hasShot only change from false
\* to true; performNightAction rejects WITCH_SAVE, WITCH_KILL and
\* HUNTER_SHOOT while the actor's flag is true; so a witch whose WITCH_SAVE
\* or WITCH_KILL a night resolution consumed never has that action accepted
\* again.
C23_GatedWhileFlagSet ==
  /\ \A u \in DOMAIN roleStates, action \in GatedActions :
       FlagOf(roleStates[u], action) => NeverAccepted(u, action)
  /\ \A a \in actions :
       (a.processed /\ a.action \in {"WITCH_SAVE", "WITCH_KILL"})
         => NeverAccepted(a.playerId, a.action)

C23_FlagsOnlyRise ==
  /\ []C23_GatedWhileFlagSet
  /\ [][\A u \in DOMAIN roleStates \cap DOMAIN roleStates' :
          \A action \in GatedActions :
            FlagOf(roleStates[u], action) => FlagOf(roleStates'[u], action)]_vars

C23_Witness ==
  /\ game.status = "IN_PROGRESS" /\ game.phase = "NIGHT"
  /\ game.dayNumber = 2
  /\ \E a \in actions, t \in Players :
       /\ a.processed /\ a.action = "WITCH_SAVE" /\ a.dayNumber = 1
       /\ roleStates[a.playerId].healPotionUsed
       /\ ~performNightAction(Db, a.playerId, "WITCH_SAVE", t, NoPlayer).ok
       /\ performNightAction(
            [Db EXCEPT !.roleStates[a.playerId].healPotionUsed = FALSE],
            a.playerId, "WITCH_SAVE", t, NoPlayer).ok

\* C24: with the calls serialised, an actor has at most one unprocessed action
\* per (NIGHT, day): a second performNightAction of the actor in that night is
\* rejected and leaves the first action as it was; and a processed flag only
\* changes from false to true.
C24_OneUnprocessedAction ==
  /\ \A a, b \in actions :
       (/\ ~a.processed /\ ~b.processed
        /\ a.playerId = b.playerId
        /\ a.phase = b.phase /\ a.dayNumber = b.dayNumber) => a = b
  /\ \A a \in actions :
       (~a.processed /\ a.phase = game.phase /\ a.dayNumber = game.dayNumber)
         => \A action \in ActionType, t \in Players,
               s \in Players \cup {NoPlayer} :
              \E r \in {performNightAction(Db, a.playerId, action, t, s)} :
                ~r.ok /\ r.db = Db

C24_ProcessedOnlyRises ==
  /\ []C24_OneUnprocessedAction
  /\ [][\A a \in actions :
          IF a.processed THEN a \in actions'
          ELSE a \in actions' \/ [a EXCEPT !.processed = TRUE] \in actions']_vars

C24_Witness ==
  /\ game.phase = "NIGHT"
  /\ \E a, b \in actions, t \in Players :
       /\ ~a.processed /\ ~b.processed /\ a.playerId # b.playerId
       /\ t # a.targetId
       /\ ~performNightAction(Db, a.playerId, a.action, t, NoPlayer).ok
       /\ performNightAction([Db EXCEPT !.actions = @ \ {a}],
                             a.playerId, a.action, t, NoPlayer).ok

\* the actions of the night of day d in `rows`, submitted or consumed
NightRows(rows, d) == {a \in rows : a.dayNumber = d /\ a.phase = "NIGHT"}

\* the required night actions are all in `rows`: a WEREWOLF_KILL while a
\* werewolf is alive, and an action of every alive SEER and DOCTOR
RequiredActionsIn(ps, rows) ==
  /\ WerewolvesAlive(ps) # {} => \E a \in rows : a.action = "WEREWOLF_KILL"
  /\ \A p \in DOMAIN ps :
       (ps[p].isAlive /\ ps[p].role \in {"SEER", "DOCTOR"})
         => \E a \in rows : a.playerId = p

\* C25: the submission of a night action that completes the required night
\* actions (counting the action just submitted) ends the night at once: the
\* phase is no longer NIGHT after the handler, without any timer.
C25_LastRequiredActionEndsNight ==
  [][(/\ game.status = "IN_PROGRESS" /\ game.phase = "NIGHT"
      /\ Cardinality(actions') = Cardinality(actions) + 1
      /\ ~RequiredActionsIn(players, NightRows(actions, game.dayNumber))
      /\ RequiredActionsIn(players, NightRows(actions', game.dayNumber)))
     => game'.phase # "NIGHT"]_vars

\* C26: the events of a phase-end are delivered by visibility: a PRIVATE
\* event (HUNTER_TRIGGERED) reaches only the users of its visibleTo.
C26_PrivateEventsReachOnlyVisibleTo ==
  \E sent \in {phaseChangedTo(Db, result)} :
    \A e \in DOMAIN sent :
      e.visibility = "PRIVATE" => sent[e] \subseteq e.visibleTo

RoleStates ==
  [healPotionUsed : BOOLEAN, poisonPotionUsed : BOOLEAN, hasShot : BOOLEAN]

\* the tables with the role and the RoleState of player q replaced
WithSecretsOf(q, role, rs) ==
  [Db EXCEPT !.players[q].role = role,
             !.roleStates = [p \in DOMAIN @ |-> IF p = q THEN rs ELSE @[p]]]

\* C27: the game state sent to viewer v does not depend on the role or the
\* RoleState of any other player (states that differ only there give the same
\* toGameStateForPlayer(game, v)), and in its players list only v's own entry
\* has a role.
C27_ViewHidesOtherRoles ==
  \A v \in DOMAIN players :
    \E view \in {toGameStateForPlayer(Db, v)} :
      /\ \A q \in DOMAIN players \ {v} :
           /\ view.players[q].role = Undefined
           /\ \A role \in Role \cup {"null"}, rs \in RoleStates :
                toGameStateForPlayer(WithSecretsOf(q, role, rs), v) = view
      /\ view.players[v].role = players[v].role

C27_Witness ==
  /\ game.phase = "DISCUSSION"
  /\ \E v, q \in DOMAIN players :
       \E view \in {toGameStateForPlayer(Db, v)} :
         /\ v # q
         /\ players[v].role = "WEREWOLF" /\ players[q].role = "WITCH"
         /\ roleStates[q].poisonPotionUsed
         /\ view.players[v].role = "WEREWOLF" /\ view.myRole = "WEREWOLF"
         /\ view.myRoleState = roleStates[v]
         /\ view.players[q].role = Undefined
         /\ toGameStateForPlayer(Db, q).myRoleState.poisonPotionUsed

\* C28: the PHASE_CHANGED broadcasts of a game reach the room in the order in
\* which the phase transitions were committed: the k-th broadcast is that of
\* the k-th committed transition, so the one for day N phase X is emitted
\* before the one for day N phase X+1.
C28_BroadcastsInCommitOrder ==
  /\ Len(calls.sent) <= Len(calls.committed)
  /\ \A k \in DOMAIN calls.sent : calls.sent[k] = calls.committed[k]

\* C29: the phase sequence shown to clients is WAITING, NIGHT, DISCUSSION,
\* VOTING, EXECUTION, NIGHT, ...: a VOTING phase resolved without a win is
\* followed by phase EXECUTION, and NIGHT is entered from WAITING or from
\* EXECUTION only.
C29_ExecutionFollowsVoting ==
  /\ [][(EndsPhase("VOTING") /\ game'.status = "IN_PROGRESS")
        => (game'.phase = "EXECUTION" /\ result'.newPhase = "EXECUTION")]_vars
  /\ [][(game.phase # "NIGHT" /\ game'.phase = "NIGHT")
        => game.phase \in {"WAITING", "EXECUTION"}]_vars

\* C30: whenever a Hunter whose hasShot is false dies (by night kill, by vote
\* or by lover cascade), the resolution returns a PRIVATE HUNTER_TRIGGERED
\* event whose visibleTo is that Hunter alone.
C30_DyingHunterIsTriggered ==
  [][\A p \in DOMAIN players :
       (/\ Dies(p)
        /\ players[p].role = "HUNTER"
        /\ p \in DOMAIN roleStates /\ ~roleStates[p].hasShot)
       => \E e \in BagToSet(result'.events) :
            /\ e.type = "HUNTER_TRIGGERED" /\ e.visibility = "PRIVATE"
            /\ e.visibleTo = {p}]_vars

\* the number of PUBLIC PLAYER_KILLED events of the bag `events` that name p
KilledEventsFor(events, p) ==
  SumOver(events, {e \in BagToSet(events) :
                     /\ e.type = "PLAYER_KILLED" /\ e.visibility = "PUBLIC"
                     /\ e.playerId = p})

\* C31: night resolution returns exactly one PUBLIC PLAYER_KILLED event for
\* each player who died in it (and none for the others), also when several
\* kill actions name the same player.
C31_OneKilledEventPerDeath ==
  [][EndsPhase("NIGHT") =>
       \A p \in Players :
         KilledEventsFor(result'.events, p) = IF Dies(p) THEN 1 ELSE 0]_vars

\* C32: a resolution in which nobody dies still reports its outcome, so the
\* event list a night or vote resolution returns is never empty.
C32_ResolutionAlwaysReports ==
  [][(EndsPhase("NIGHT") \/ EndsPhase("VOTING"))
     => result'.events # EmptyBag]_vars

\* C33: performNightAction rejects an action whose secondaryTargetId is
\* absent from the game, dead, or equal to the primary targetId, and records
\* no action then.
C33_SecondaryTargetChecked ==
  \A u \in Players, action \in ActionType, t \in Players,
     s \in 1..(NumPlayers + 1) :
    (\/ s \notin DOMAIN players
     \/ ~players[s].isAlive
     \/ s = t)
    => \E r \in {performNightAction(Db, u, action, t, s)} :
         ~r.ok /\ r.db.actions = actions

\* C34: a timer started for phase P of day d ends a phase only if the game is
\* still in phase P of day d when it fires: a timer left over from a phase
\* that ended early never ends a later instance of that phase.
C34_StaleTimerEndsNothing ==
  [][((\E ph \in TimedPhases : timers'[ph] < timers[ph]) /\ game' # game)
     => calls'.fired = <<game.phase, game.dayNumber>>]_vars

\* C35: in every reachable state, also with interleaved processPhaseEnd
\* calls, winningSide is set iff status = COMPLETED, and status = COMPLETED
\* implies phase = GAME_OVER.
C35_CompletedStaysGameOver ==
  /\ game.winningSide # NoSide <=> game.status = "COMPLETED"
  /\ game.status = "COMPLETED" => game.phase = "GAME_OVER"

\* the calls of SpecOverlap that have read the game and not yet written
InFlight == {u \in Players : calls.tasks[u].op # "idle"}

\* C36: after any interleaving of leaveGame calls on a LOBBY game, the game
\* is deleted or exactly one of its players has isHost = TRUE
C36_LeavesKeepOneHost ==
  (game.status = "LOBBY" /\ InFlight = {}) =>
    Cardinality({p \in DOMAIN players : players[p].isHost}) = 1

\* C37: every player of an IN_PROGRESS game has a role and a RoleState, also
\* when a joinGame overlaps startGame
C37_StartedPlayersHaveRoles ==
  game.status = "IN_PROGRESS" =>
    \A p \in DOMAIN players :
      players[p].role # "null" /\ p \in DOMAIN roleStates

\* C39: after any interleaving of joinGame and leaveGame calls the game has at
\* most settings.maxPlayers players and every playerNumber is in
\* 1..maxPlayers (the store keeps (game, playerNumber) and (game, user) unique)
C39_NeverMoreThanMaxPlayers ==
  /\ Cardinality(DOMAIN players) <= game.settings.maxPlayers
  /\ \A p \in DOMAIN players :
       players[p].playerNumber \in 1..game.settings.maxPlayers

\* a full game after a joinGame that read it with a free place was rejected
C39_Witness ==
  /\ Cardinality(DOMAIN players) = game.settings.maxPlayers
  /\ "join" \in calls.thrown

\* C38: also when performNightAction calls of one actor overlap, the actor
\* never has two unprocessed actions for the same night
C38_OverlappingActionsOneAccepted ==
  \A p \in Players, d \in 1..(FirstDay + 1) :
    Cardinality({a \in actions : /\ a.playerId = p /\ ~a.processed
                                 /\ a.phase = "NIGHT"
                                 /\ a.dayNumber = d}) <= 1

\* C40: while a game is IN_PROGRESS in NIGHT, DISCUSSION or VOTING a timer for
\* that phase is pending, and with the pending timers firing the phase of
\* that day ends, whether or not a player acts
C40_PhaseEventuallyEnds ==
  /\ [](game.status = "IN_PROGRESS" /\ game.phase \in TimedPhases
          => timers[game.phase] > 0)
  /\ \A phase \in TimedPhases : \A d \in 1..MaxDay :
       (game.status = "IN_PROGRESS" /\ game.phase = phase
          /\ game.dayNumber = d)
         ~> ~(game.status = "IN_PROGRESS" /\ game.phase = phase
                /\ game.dayNumber = d)

\* the night after the last modelled day, reached without any action or vote
C40_Witness ==
  /\ game.status = "IN_PROGRESS"
  /\ game.phase = "NIGHT"
  /\ game.dayNumber = MaxDay + 1
  /\ actions = {}
  /\ votes = {}

====
